---- MODULE Spec2Model ----
(***************************************************************************)
(* A model of the tree-walking Lox interpreter of this repository: the     *)
(* driver (app/main.py), the resolver (app/resolver.py), the evaluator     *)
(* (app/interpreter.py), the environment chain (app/environment.py) and    *)
(* the callable / class / instance objects (app/lox_*.py).                 *)
(*                                                                         *)
(* The evaluator is modelled big-step: every visit_* method is an operator *)
(* from an interpreter state to an interpreter state.  A Python exception  *)
(* is the field sig of the state: "ok" (no exception), "error" (a          *)
(* RuntimeException), "return" (the Return signal) and "crash" (any other  *)
(* Python exception: KeyError, AssertionError, RecursionError, ...).       *)
(* The field trace is a history of what the evaluator did; it is not       *)
(* program state and no operator reads it.                                 *)
(***************************************************************************)
EXTENDS Integers, Sequences, FiniteSets, TLC

\* ------------------------------------------------------------------ bounds

\* Nested user-function invocations the model follows before Python's
\* recursion limit (RecursionError) is taken to strike.
MaxCallDepth == 4

\* Iterations of one while loop the model follows.
MaxLoopIter == 3

\* Length of the generated programs (sequences of pool statements).
MaxStmts == 2

\* Environments of the chain the calls of Environment's methods are made on.
MaxEnvs == 3

\* ------------------------------------------------------------------ values

Nil == [k |-> "nil", n |-> 0, s |-> ""]

Bool(b) == [k |-> "bool", n |-> IF b THEN 1 ELSE 0, s |-> ""]

Num(i) == [k |-> "num", n |-> i, s |-> ""]

Str(x) == [k |-> "str", n |-> 0, s |-> x]

FunV(i) == [k |-> "fun", n |-> i, s |-> ""]

ClassV(i) == [k |-> "class", n |-> i, s |-> ""]

InstV(i) == [k |-> "inst", n |-> i, s |-> ""]

NativeV == [k |-> "native", n |-> 0, s |-> "clock"]

\* ------------------------------------------------------------------ tokens

Token(tt, lexeme, line) == [token_type |-> tt, lexeme |-> lexeme, line |-> line]

Ident(lexeme, line) == Token("IDENTIFIER", lexeme, line)

\* ------------------------------------------------------------- AST: Expr

NoNode == [t |-> "None"]

Literal(v) == [t |-> "Literal", value |-> v]

Variable(id, name) == [t |-> "Variable", id |-> id, name |-> name]

Assign(id, name, value) == [t |-> "Assign", id |-> id, name |-> name, value |-> value]

Binary(left, op, right) == [t |-> "Binary", left |-> left, operator |-> op, right |-> right]

Unary(op, right) == [t |-> "Unary", operator |-> op, right |-> right]

Logical(left, op, right) == [t |-> "Logical", left |-> left, operator |-> op, right |-> right]

Grouping(e) == [t |-> "Grouping", expression |-> e]

Call(id, callee, arguments) == [t |-> "Call", id |-> id, callee |-> callee, arguments |-> arguments]

Get(object, name) == [t |-> "Get", object |-> object, name |-> name]

Set(object, name, value) == [t |-> "Set", object |-> object, name |-> name, value |-> value]

This(id, line) == [t |-> "This", id |-> id, keyword |-> Token("THIS", "this", line)]

Super(id, line, method) == [t |-> "Super", id |-> id, keyword |-> Token("SUPER", "super", line), method |-> method]

\* ------------------------------------------------------------- AST: Stmt

Expression(e) == [t |-> "Expression", expression |-> e]

PrintStmt(e) == [t |-> "Print", expression |-> e]

Var(name, initializer) == [t |-> "Var", name |-> name, initializer |-> initializer]

Block(id, statements) == [t |-> "Block", id |-> id, statements |-> statements]

If(condition, then_branch, else_branch) == [t |-> "If", condition |-> condition, then_branch |-> then_branch, else_branch |-> else_branch]

While(condition, body) == [t |-> "While", condition |-> condition, body |-> body]

Function(id, name, params, body) == [t |-> "Function", id |-> id, name |-> name, params |-> params, body |-> body]

Return(line, value) == [t |-> "Return", keyword |-> Token("RETURN", "return", line), value |-> value]

Class(id, name, superclass, methods) == [t |-> "Class", id |-> id, name |-> name, superclass |-> superclass, methods |-> methods]

\* ------------------------------------------------------- interpreter state

GlobalsId == 1

EmptyDict == [x \in {} |-> Nil]

DictSet(d, key, v) == [x \in DOMAIN d \cup {key} |-> IF x = key THEN v ELSE d[x]]

\* A dict key as Python sees it: a str, or an object of another class.  The
\* maps of an Environment are only ever filled with str keys.
StrKey(s) == [kind |-> "str", s |-> s]

TokenKey(tok) == [kind |-> "Token", s |-> tok.lexeme]

DictHas(d, key) == key.kind = "str" /\ key.s \in DOMAIN d

Environment(values, enclosing, origin) == [values |-> values, enclosing |-> enclosing, origin |-> origin]

InitInterpreter ==
    [envs |-> << Environment(DictSet(EmptyDict, "clock", NativeV), 0, 0) >>,
     cur |-> GlobalsId,
     locals |-> [x \in {} |-> 0],
     funs |-> << >>,
     classes |-> << >>,
     insts |-> << >>,
     out |-> << >>,
     trace |-> << >>,
     depth |-> 0,
     ncalls |-> 0,
     nblocks |-> 0,
     sig |-> "ok",
     val |-> Nil,
     msg |-> ""]

Ok(st, v) == [st EXCEPT !.sig = "ok", !.val = v]

RuntimeException(st, m) == [st EXCEPT !.sig = "error", !.msg = m]

PythonException(st, m) == [st EXCEPT !.sig = "crash", !.msg = m]

ReturnSignal(st, v) == [st EXCEPT !.sig = "return", !.val = v]

Log(st, e) == [st EXCEPT !.trace = Append(@, e)]

\* ------------------------------------------------------------ environment

NewEnvironment(st, enclosing, origin) ==
    [st EXCEPT !.envs = Append(@, Environment(EmptyDict, enclosing, origin))]

\* Environment.define on environment e
Define(st, e, name, value) ==
    [st EXCEPT !.envs[e].values = DictSet(@, name, value)]

RECURSIVE Lookup(_, _, _)
\* the environment of the chain starting at e that binds lexeme, nearest
\* first; 0 when none does (the walk of Environment.get and .assign)
Lookup(envs, e, lexeme) ==
    IF lexeme \in DOMAIN envs[e].values THEN e
    ELSE IF envs[e].enclosing # 0 THEN Lookup(envs, envs[e].enclosing, lexeme)
    ELSE 0

\* Environment.get that looks at the receiver's own values only
EnvGetOwnOnly(st, e, name) ==
    IF name.lexeme \in DOMAIN st.envs[e].values
    THEN Ok(Log(st, [ev |-> "get", lexeme |-> name.lexeme, env |-> e]),
            st.envs[e].values[name.lexeme])
    ELSE RuntimeException(Log(st, [ev |-> "get", lexeme |-> name.lexeme, env |-> 0]),
                          "Undefined variable '" \o name.lexeme \o "'.")

\* Environment.get on environment e
EnvGet(st, e, name) ==
    LET found == Lookup(st.envs, e, name.lexeme)
        st1 == Log(st, [ev |-> "get", lexeme |-> name.lexeme, env |-> found])
    IN  IF found # 0
        THEN Ok(st1, st.envs[found].values[name.lexeme])
        ELSE RuntimeException(st1, "Undefined variable '" \o name.lexeme \o "'.")

\* Environment.assign on environment e
EnvAssign(st, e, name, value) ==
    LET found == Lookup(st.envs, e, name.lexeme)
        st1 == Log(st, [ev |-> "assign", lexeme |-> name.lexeme, env |-> found])
    IN  IF found # 0
        THEN Ok(Define(st1, found, name.lexeme, value), value)
        ELSE RuntimeException(st1, "Undefined variable '" \o name.lexeme \o "'")

RECURSIVE Ancestor(_, _, _)
\* Environment._ancestor: the environment distance hops up from e; 0 when
\* the chain is shorter (the AssertionError)
Ancestor(envs, e, distance) ==
    IF distance <= 0 THEN e
    ELSE IF envs[e].enclosing = 0 THEN 0
    ELSE Ancestor(envs, envs[e].enclosing, distance - 1)

\* Environment.get_at on environment e; key is the dict key handed in
EnvGetAt(st, e, distance, key) ==
    LET a == Ancestor(st.envs, e, distance)
        bound == a # 0 /\ DictHas(st.envs[a].values, key)
        st1 == Log(st, [ev |-> "get_at", from |-> e, distance |-> distance,
                        key |-> key, env |-> a, bound |-> bound])
    IN  IF a = 0 THEN PythonException(st1, "AssertionError")
        ELSE IF ~bound THEN PythonException(st1, "KeyError")
        ELSE Ok(st1, st.envs[a].values[key.s])

\* Environment.assign_at on environment e
EnvAssignAt(st, e, distance, name, value) ==
    LET a == Ancestor(st.envs, e, distance)
        bound == a # 0 /\ name.lexeme \in DOMAIN st.envs[a].values
        st1 == Log(st, [ev |-> "assign_at", from |-> e, distance |-> distance,
                        key |-> StrKey(name.lexeme), env |-> a, bound |-> bound])
    IN  IF a = 0 THEN PythonException(st1, "AssertionError")
        ELSE Ok(Define(st1, a, name.lexeme, value), value)

\* ------------------------------------------------- callables and instances

LoxFunction(declaration, closure, is_initializer) ==
    [declaration |-> declaration, closure |-> closure, is_initializer |-> is_initializer]

LoxClass(name, superclass, methods) ==
    [name |-> name, superclass |-> superclass, methods |-> methods]

LoxInstance(klass) == [klass |-> klass, fields |-> EmptyDict]

\* isinstance(v, LoxCallable)
IsCallable(v) == v.k \in {"fun", "class", "native"}

\* find_method that looks at the class's own methods only
FindMethodOwnOnly(classes, c, name) ==
    IF name \in DOMAIN classes[c].methods THEN classes[c].methods[name] ELSE 0

RECURSIVE FindMethod(_, _, _)
\* LoxClass.find_method: the index of the LoxFunction, 0 for None
FindMethod(classes, c, name) ==
    IF name \in DOMAIN classes[c].methods THEN classes[c].methods[name]
    ELSE IF classes[c].superclass # 0 THEN FindMethod(classes, classes[c].superclass, name)
    ELSE 0

\* arity() of a callable value
Arity(st, v) ==
    CASE v.k = "fun" -> Len(st.funs[v.n].declaration.params)
      [] v.k = "class" ->
            LET initializer == FindMethod(st.classes, v.n, "init") IN
            IF initializer # 0 THEN Len(st.funs[initializer].declaration.params) ELSE 0
      [] OTHER -> 0

\* LoxFunction.bind: val is the new bound function
Bind(st, f, instance) ==
    LET e == Len(st.envs) + 1
        st1 == NewEnvironment(st, st.funs[f].closure,
                              [kind |-> "this", id |-> st.funs[f].declaration.id])
        st2 == Define(st1, e, "this", InstV(instance))
        st3 == [st2 EXCEPT !.funs = Append(@, LoxFunction(st.funs[f].declaration, e,
                                                         st.funs[f].is_initializer))]
    IN  Ok(st3, FunV(Len(st3.funs)))

\* LoxFunction._get_this: get_at is handed the Token, not its lexeme
GetThis(st, f) ==
    EnvGetAt(st, st.funs[f].closure, 0,
             TokenKey(Token("THIS", "this", st.funs[f].declaration.name.line)))

\* ------------------------------------------------------ evaluator helpers

\* Interpreter._is_truthy
IsTruthy(v) ==
    ~ (v.k = "nil" \/ (v.k = "bool" /\ v.n = 0) \/ (v.k = "str" /\ v.s = "nil"))

\* Interpreter._stringify
Stringify(st, v) ==
    CASE v.k = "nil" -> "nil"
      [] v.k = "bool" -> IF v.n = 1 THEN "true" ELSE "false"
      [] v.k = "num" -> ToString(v.n)
      [] v.k = "str" -> v.s
      [] v.k = "fun" -> "<fn " \o st.funs[v.n].declaration.name.lexeme \o ">"
      [] v.k = "class" -> st.classes[v.n].name
      [] v.k = "inst" -> st.classes[st.insts[v.n].klass].name \o " instance"
      [] OTHER -> "<native fn>"

\* isinstance(v, (int, float)): a Python bool is an int
IsIntOrFloat(v) == v.k \in {"num", "bool"}

\* Python's `a is b` as the evaluator uses it (a bool or a callable operand)
PyIs(a, b) == a.k = b.k /\ a.n = b.n /\ a.s = b.s

RECURSIVE PyEq(_, _, _)

RECURSIVE EnvironmentEq(_, _, _)
\* the __eq__ that @dataclass gives Environment: (values, enclosing) compared
\* as tuples, an object being equal to itself
EnvironmentEq(st, e1, e2) ==
    \/ e1 = e2
    \/ /\ e1 # 0 /\ e2 # 0
       /\ DOMAIN st.envs[e1].values = DOMAIN st.envs[e2].values
       /\ \A x \in DOMAIN st.envs[e1].values :
              PyEq(st, st.envs[e1].values[x], st.envs[e2].values[x])
       /\ EnvironmentEq(st, st.envs[e1].enclosing, st.envs[e2].enclosing)

RECURSIVE ClassEq(_, _, _)
\* the __eq__ that @dataclass gives LoxClass: (name, superclass, methods)
ClassEq(st, c1, c2) ==
    \/ c1 = c2
    \/ /\ c1 # 0 /\ c2 # 0
       /\ st.classes[c1].name = st.classes[c2].name
       /\ ClassEq(st, st.classes[c1].superclass, st.classes[c2].superclass)
       /\ DOMAIN st.classes[c1].methods = DOMAIN st.classes[c2].methods
       /\ \A x \in DOMAIN st.classes[c1].methods :
              PyEq(st, FunV(st.classes[c1].methods[x]), FunV(st.classes[c2].methods[x]))

\* Python's `a == b` (and, negated, `a != b`) on two values of the evaluator:
\* numbers, strings and None by value, a bool as the int it is, and the
\* objects of the @dataclass classes LoxInstance, LoxFunction and LoxClass
\* field by field, an object being equal to itself.  (Python raises
\* RecursionError on two cyclic object graphs; no source of the model
\* compares any.)
PyEq(st, a, b) ==
    \/ PyIs(a, b)
    \/ /\ IsIntOrFloat(a) /\ IsIntOrFloat(b)
       /\ a.n = b.n /\ a.s = b.s
    \/ /\ a.k = "inst" /\ b.k = "inst"
       /\ ClassEq(st, st.insts[a.n].klass, st.insts[b.n].klass)
       /\ DOMAIN st.insts[a.n].fields = DOMAIN st.insts[b.n].fields
       /\ \A x \in DOMAIN st.insts[a.n].fields :
              PyEq(st, st.insts[a.n].fields[x], st.insts[b.n].fields[x])
    \/ /\ a.k = "fun" /\ b.k = "fun"
       /\ st.funs[a.n].declaration = st.funs[b.n].declaration
       /\ EnvironmentEq(st, st.funs[a.n].closure, st.funs[b.n].closure)
       /\ st.funs[a.n].is_initializer = st.funs[b.n].is_initializer
    \/ /\ a.k = "class" /\ b.k = "class"
       /\ ClassEq(st, a.n, b.n)

\* -------------------------------------------------------------- evaluator

RECURSIVE Evaluate(_, _)
RECURSIVE Execute(_, _)
RECURSIVE ExecuteBlock(_, _, _)
RECURSIVE FunctionCall(_, _, _)

\* a call that returns v unless an exception is on its way
WithValue(r, v) == IF r.sig # "ok" THEN r ELSE Ok(r, v)

\* ghost: the end of a call, with how it ended
LogResult(res, e) == Log(res, e @@ [sig |-> res.sig, val |-> res.val])

\* Interpreter.visit_literal_expr
VisitLiteralExpr(expr, st) == Ok(st, expr.value)

\* what of the evaluator's state a variable use meets: the environment a
\* walk from the current one finds the name in, and whether globals has it
UseEvent(name, expr, st) ==
    [ev |-> "use", id |-> expr.id, lexeme |-> name.lexeme, cur |-> st.cur,
     dynamic |-> Lookup(st.envs, st.cur, name.lexeme),
     global |-> name.lexeme \in DOMAIN st.envs[GlobalsId].values]

\* _lookup_variable without the resolution table: every use walks the chain
LookupVariableDynamic(name, expr, st) ==
    EnvGet(Log(st, UseEvent(name, expr, st)), st.cur, name)

\* Interpreter._lookup_variable
LookupVariable(name, expr, st) ==
    IF DOMAIN st.locals = {}
    THEN EnvGet(Log(st, UseEvent(name, expr, st)), st.cur, name)
    ELSE IF expr.id \notin DOMAIN st.locals
    THEN EnvGet(Log(st, UseEvent(name, expr, st)), GlobalsId, name)
    ELSE EnvGetAt(Log(st, UseEvent(name, expr, st)), st.cur, st.locals[expr.id],
                  StrKey(name.lexeme))

\* Interpreter.visit_variable_expr
VisitVariableExpr(expr, st) == LookupVariable(expr.name, expr, st)

\* Interpreter.visit_this_expr
VisitThisExpr(expr, st) == LookupVariable(expr.keyword, expr, st)

\* Interpreter.visit_assign_expr once the value is evaluated: v is the
\* state _evaluate left, its val the value
AssignValue(expr, v) ==
    IF v.sig # "ok" THEN v
    ELSE IF DOMAIN v.locals = {} THEN EnvAssign(v, v.cur, expr.name, v.val)
    ELSE IF expr.id \in DOMAIN v.locals
         THEN EnvAssignAt(v, v.cur, v.locals[expr.id], expr.name, v.val)
         ELSE EnvAssign(v, GlobalsId, expr.name, v.val)

\* Interpreter.visit_assign_expr
VisitAssignExpr(expr, st) == AssignValue(expr, Evaluate(expr.value, st))

\* Interpreter.visit_logical_expr once the left operand is evaluated
LogicalRight(expr, left) ==
    IF left.sig # "ok" THEN left
    ELSE IF expr.operator.token_type = "OR"
         THEN (IF IsTruthy(left.val) THEN left ELSE Evaluate(expr.right, left))
         ELSE (IF ~ IsTruthy(left.val) THEN left ELSE Evaluate(expr.right, left))

\* Interpreter.visit_logical_expr
VisitLogicalExpr(expr, st) == LogicalRight(expr, Evaluate(expr.left, st))

\* Interpreter.visit_grouping_expr
VisitGroupingExpr(expr, st) == Evaluate(expr.expression, st)

\* Interpreter.visit_unary_expr once the operand is evaluated
UnaryOperator(expr, right) ==
    IF right.sig # "ok" THEN right
    ELSE CASE expr.operator.token_type = "BANG" -> Ok(right, Bool(~ IsTruthy(right.val)))
           [] expr.operator.token_type = "MINUS" ->
                IF right.val.k = "num"
                THEN (IF right.val.n = 0 THEN Ok(right, Str("-0"))
                      ELSE Ok(right, Num(0 - right.val.n)))
                ELSE RuntimeException(right, "Operand must be a number.")
           [] OTHER -> Ok(right, Nil)

\* Interpreter.visit_unary_expr
VisitUnaryExpr(expr, st) == UnaryOperator(expr, Evaluate(expr.right, st))

\* the arithmetic and comparison half of Interpreter.visit_binary_expr,
\* after _check_number_operands let both operands through
NumberBinary(st, tt, l, r) ==
    CASE tt = "MINUS" -> Ok(st, Num(l - r))
      [] tt = "STAR" -> Ok(st, Num(l * r))
      [] tt = "SLASH" ->
            IF r = 0 THEN PythonException(st, "ZeroDivisionError")
            ELSE IF l % (IF r < 0 THEN 0 - r ELSE r) = 0
                 THEN Ok(st, Num(IF r < 0 THEN 0 - (l \div (0 - r)) ELSE l \div r))
                 ELSE Ok(st, [k |-> "num", n |-> l \div r, s |-> "inexact"])
      [] tt = "GREATER" -> Ok(st, Bool(l > r))
      [] tt = "GREATER_EQUAL" -> Ok(st, Bool(l >= r))
      [] tt = "LESS" -> Ok(st, Bool(l < r))
      [] tt = "LESS_EQUAL" -> Ok(st, Bool(l <= r))
      [] OTHER -> Ok(st, Nil)

\* Interpreter.visit_binary_expr once both operands are evaluated: l is the
\* left value, r the state the right operand left
BinaryOperator(expr, l, r) ==
    LET left == IF l = Str("-0") THEN Num(0) ELSE l
        right == IF r.val = Str("-0") THEN Num(0) ELSE r.val
        tt == expr.operator.token_type
        reserved == {"true", "false", "nil"}
    IN  IF r.sig # "ok" THEN r
        ELSE CASE tt = "PLUS" ->
                    IF left.k = "num" /\ right.k = "num"
                    THEN Ok(r, Num(left.n + right.n))
                    ELSE IF left.k = "str" /\ right.k = "str"
                            /\ left.s \notin reserved /\ right.s \notin reserved
                    THEN Ok(r, Str(left.s \o right.s))
                    ELSE RuntimeException(r, "Operands must be two numbers or two strings.")
               [] tt = "BANG_EQUAL" ->
                    IF left.k = "bool" \/ right.k = "bool"
                    THEN Ok(r, Bool(~ PyIs(left, right)))
                    ELSE Ok(r, Bool(~ PyEq(r, left, right)))
               [] tt = "EQUAL_EQUAL" ->
                    IF IsCallable(left) \/ IsCallable(right)
                       \/ left.k = "bool" \/ right.k = "bool"
                    THEN Ok(r, Bool(PyIs(left, right)))
                    ELSE Ok(r, Bool(PyEq(r, left, right)))
               [] OTHER ->
                    IF IsIntOrFloat(left) /\ IsIntOrFloat(right)
                    THEN NumberBinary(r, tt, left.n, right.n)
                    ELSE RuntimeException(r, "Operands must be numbers.")

\* Interpreter.visit_binary_expr once the left operand is evaluated
BinaryRight(expr, l) ==
    IF l.sig # "ok" THEN l
    ELSE BinaryOperator(expr, l.val, Evaluate(expr.right, l))

\* Interpreter.visit_binary_expr
VisitBinaryExpr(expr, st) == BinaryRight(expr, Evaluate(expr.left, st))

RECURSIVE EvaluateArguments(_, _, _, _, _)

\* arguments.append(...) for argument i, evaluated to a
AppendArgument(exprs, i, a, arguments, cid) ==
    IF a.sig # "ok" THEN [st |-> a, arguments |-> arguments]
    ELSE EvaluateArguments(exprs, i + 1,
                           Log(a, [ev |-> "argument", cid |-> cid, i |-> i]),
                           Append(arguments, a.val), cid)

\* the argument loop of Interpreter.visit_call_expr, from argument i on:
\* st is the state, arguments the values so far
EvaluateArguments(exprs, i, st, arguments, cid) ==
    IF i > Len(exprs) THEN [st |-> st, arguments |-> arguments]
    ELSE AppendArgument(exprs, i, Evaluate(exprs[i], st), arguments, cid)

\* LoxClass.call
ClassCall(c, arguments, st) ==
    LET i == Len(st.insts) + 1
        initializer == FindMethod(st.classes, c, "init")
        st1 == Log([st EXCEPT !.insts = Append(@, LoxInstance(c))],
                   [ev |-> "class_call", class |-> c, instance |-> i,
                    arguments |-> arguments])
    IN  LogResult(IF initializer = 0 THEN Ok(st1, InstV(i))
                  ELSE WithValue(FunctionCall(Len(st.funs) + 1, arguments,
                                              Bind(st1, initializer, i)),
                                 InstV(i)),
                  [ev |-> "class_exit", class |-> c, instance |-> i])

\* callee.call(self, arguments)
CallValue(callee, arguments, st) ==
    CASE callee.k = "fun" -> FunctionCall(callee.n, arguments, st)
      [] callee.k = "class" -> ClassCall(callee.n, arguments, st)
      [] OTHER -> Ok(st, Num(0))

\* the two checks of Interpreter.visit_call_expr and the call: a is what the
\* argument loop left
CallChecks(callee, cid, a) ==
    IF a.st.sig # "ok" THEN a.st
    ELSE IF ~ IsCallable(callee)
         THEN RuntimeException(Log(a.st, [ev |-> "not_callable", cid |-> cid]),
                               "Can only call functions and classes.")
    ELSE IF Len(a.arguments) # Arity(a.st, callee)
         THEN RuntimeException(Log(a.st, [ev |-> "bad_arity", cid |-> cid]),
                               "Expected " \o ToString(Arity(a.st, callee))
                               \o " arguments but got "
                               \o ToString(Len(a.arguments)) \o ".")
    ELSE CallValue(callee, a.arguments,
                   Log(a.st, [ev |-> "invoke", cid |-> cid,
                              arguments |-> a.arguments]))

\* visit_call_expr with the callable check made before the arguments are
\* evaluated
CallArgumentsCheckFirst(expr, cid, c) ==
    IF c.sig # "ok" THEN c
    ELSE IF ~ IsCallable(c.val)
         THEN RuntimeException(
                Log(Log(c, [ev |-> "callee", cid |-> cid, callee |-> c.val]),
                    [ev |-> "not_callable", cid |-> cid]),
                "Can only call functions and classes.")
    ELSE CallChecks(c.val, cid,
                    EvaluateArguments(expr.arguments, 1,
                        Log(c, [ev |-> "callee", cid |-> cid, callee |-> c.val]),
                        << >>, cid))

\* Interpreter.visit_call_expr once the callee is evaluated, to c
CallArguments(expr, cid, c) ==
    IF c.sig # "ok" THEN c
    ELSE CallChecks(c.val, cid,
                    EvaluateArguments(expr.arguments, 1,
                        Log(c, [ev |-> "callee", cid |-> cid, callee |-> c.val]),
                        << >>, cid))

\* Interpreter.visit_call_expr
VisitCallExpr(expr, st) ==
    CallArguments(expr, st.ncalls + 1,
        Evaluate(expr.callee,
                 Log([st EXCEPT !.ncalls = @ + 1],
                     [ev |-> "call_begin", cid |-> st.ncalls + 1, id |-> expr.id,
                      nargs |-> Len(expr.arguments)])))

\* instance.get with methods shadowing fields
InstanceGetMethodFirst(st, i, name) ==
    IF FindMethod(st.classes, st.insts[i].klass, name.lexeme) # 0
    THEN Bind(st, FindMethod(st.classes, st.insts[i].klass, name.lexeme), i)
    ELSE IF name.lexeme \in DOMAIN st.insts[i].fields
    THEN Ok(st, st.insts[i].fields[name.lexeme])
    ELSE RuntimeException(st, "Undefined property '" \o name.lexeme \o "'.")

\* LoxInstance.get
InstanceGet(st, i, name) ==
    IF name.lexeme \in DOMAIN st.insts[i].fields
    THEN Ok(st, st.insts[i].fields[name.lexeme])
    ELSE IF FindMethod(st.classes, st.insts[i].klass, name.lexeme) # 0
    THEN Bind(st, FindMethod(st.classes, st.insts[i].klass, name.lexeme), i)
    ELSE RuntimeException(st, "Undefined property '" \o name.lexeme \o "'.")

\* Interpreter.visit_get_expr once the object is evaluated
GetProperty(expr, obj) ==
    IF obj.sig # "ok" THEN obj
    ELSE IF obj.val.k # "inst" THEN RuntimeException(obj, "Only instances have properties.")
    ELSE InstanceGet(obj, obj.val.n, expr.name)

\* Interpreter.visit_get_expr
VisitGetExpr(expr, st) == GetProperty(expr, Evaluate(expr.object, st))

\* LoxInstance.set on instance i, once the value is evaluated
InstanceSet(i, name, value) ==
    IF value.sig # "ok" THEN value
    ELSE [value EXCEPT !.insts[i].fields = DictSet(@, name.lexeme, value.val)]

\* Interpreter.visit_set_expr once the object is evaluated
SetValue(expr, obj) ==
    IF obj.sig # "ok" THEN obj
    ELSE IF obj.val.k # "inst" THEN RuntimeException(obj, "Only instances have fields.")
    ELSE InstanceSet(obj.val.n, expr.name, Evaluate(expr.value, obj))

\* Interpreter.visit_set_expr
VisitSetExpr(expr, st) == SetValue(expr, Evaluate(expr.object, st))

\* visit_super_expr that looks `this` up at the distance of `super`
SuperMethodSameDistance(expr, cur, distance, superclass) ==
    LET obj == EnvGetAt(superclass, cur, distance, StrKey("this"))
        method == FindMethod(superclass.classes, superclass.val.n, expr.method.lexeme)
    IN  IF superclass.sig # "ok" THEN superclass
        ELSE IF obj.sig # "ok" THEN obj
        ELSE IF method = 0
             THEN RuntimeException(obj, "Undefined property '" \o expr.method.lexeme \o "'.")
        ELSE IF obj.val.k # "inst"
             THEN RuntimeException(obj, "Could not retrieve instace of subclass.")
        ELSE Bind(obj, method, obj.val.n)

\* Interpreter.visit_super_expr once the superclass is looked up
SuperMethod(expr, cur, distance, superclass) ==
    LET obj == EnvGetAt(superclass, cur, distance - 1, StrKey("this"))
        method == FindMethod(superclass.classes, superclass.val.n, expr.method.lexeme)
    IN  IF superclass.sig # "ok" THEN superclass
        ELSE IF obj.sig # "ok" THEN obj
        ELSE IF method = 0
             THEN RuntimeException(obj, "Undefined property '" \o expr.method.lexeme \o "'.")
        ELSE IF obj.val.k # "inst"
             THEN RuntimeException(obj, "Could not retrieve instace of subclass.")
        ELSE Bind(obj, method, obj.val.n)

\* Interpreter.visit_super_expr
VisitSuperExpr(expr, st) ==
    IF expr.id \notin DOMAIN st.locals THEN PythonException(st, "KeyError")
    ELSE SuperMethod(expr, st.cur, st.locals[expr.id],
                     EnvGetAt(st, st.cur, st.locals[expr.id], StrKey("super")))

\* Interpreter._evaluate: expr.accept(self)
Evaluate(expr, st) ==
    CASE expr.t = "Literal" -> VisitLiteralExpr(expr, st)
      [] expr.t = "Variable" -> VisitVariableExpr(expr, st)
      [] expr.t = "Assign" -> VisitAssignExpr(expr, st)
      [] expr.t = "Logical" -> VisitLogicalExpr(expr, st)
      [] expr.t = "Grouping" -> VisitGroupingExpr(expr, st)
      [] expr.t = "Unary" -> VisitUnaryExpr(expr, st)
      [] expr.t = "Binary" -> VisitBinaryExpr(expr, st)
      [] expr.t = "Call" -> VisitCallExpr(expr, st)
      [] expr.t = "Get" -> VisitGetExpr(expr, st)
      [] expr.t = "Set" -> VisitSetExpr(expr, st)
      [] expr.t = "This" -> VisitThisExpr(expr, st)
      [] expr.t = "Super" -> VisitSuperExpr(expr, st)

RECURSIVE ExecuteStatements(_, _, _)
\* for stmt in statements: self._execute(stmt), from statement i on; an
\* exception of the statement before ends the loop
ExecuteStatements(statements, i, st) ==
    IF st.sig # "ok" \/ i > Len(statements) THEN st
    ELSE ExecuteStatements(statements, i + 1, Execute(statements[i], st))

\* _execute_block with the restore after the loop instead of in a finally
RestoreEnvironmentNoFinally(b, previous, r) ==
    IF r.sig # "ok" THEN r
    ELSE Log([r EXCEPT !.cur = previous],
             [ev |-> "block_exit", b |-> b, sig |-> r.sig,
              before |-> r.cur, after |-> previous])

\* the finally of Interpreter._execute_block: r is the state the loop left
RestoreEnvironment(b, previous, r) ==
    Log([r EXCEPT !.cur = previous],
        [ev |-> "block_exit", b |-> b, sig |-> r.sig,
         before |-> r.cur, after |-> previous])

\* Interpreter._execute_block
ExecuteBlock(statements, environment, st) ==
    RestoreEnvironment(st.nblocks + 1, st.cur,
        ExecuteStatements(statements, 1,
            Log([st EXCEPT !.nblocks = @ + 1, !.cur = environment],
                [ev |-> "block_enter", b |-> st.nblocks + 1, previous |-> st.cur,
                 environment |-> environment])))

RECURSIVE DefineParams(_, _, _, _, _)
\* the parameter loop of LoxFunction.call
DefineParams(st, e, params, arguments, i) ==
    IF i > Len(params) THEN st
    ELSE DefineParams(Define(st, e, params[i].lexeme, arguments[i]),
                      e, params, arguments, i + 1)

\* LoxFunction.call once _execute_block is through: the except clause and
\* the lines after it; r is the state the block left, depth the caller's
FunctionReturn(f, e, depth, r) ==
    LogResult(CASE r.sig = "return" ->
                     IF r.funs[f].is_initializer
                     THEN GetThis([r EXCEPT !.depth = depth], f)
                     ELSE Ok([r EXCEPT !.depth = depth], r.val)
                [] r.sig = "ok" ->
                     IF r.funs[f].is_initializer
                     THEN GetThis([r EXCEPT !.depth = depth], f)
                     ELSE Ok([r EXCEPT !.depth = depth], Nil)
                [] OTHER -> [r EXCEPT !.depth = depth],
              [ev |-> "fn_exit", f |-> f, env |-> e, body |-> r.sig,
               returned |-> r.val])

\* LoxFunction.call
FunctionCall(f, arguments, st) ==
    IF st.depth >= MaxCallDepth THEN PythonException(st, "RecursionError")
    ELSE FunctionReturn(f, Len(st.envs) + 1, st.depth,
            ExecuteBlock(st.funs[f].declaration.body, Len(st.envs) + 1,
                Log([DefineParams(
                        NewEnvironment(st, st.funs[f].closure,
                                       [kind |-> "call",
                                        id |-> st.funs[f].declaration.id]),
                        Len(st.envs) + 1, st.funs[f].declaration.params,
                        arguments, 1)
                     EXCEPT !.depth = @ + 1],
                    [ev |-> "fn_enter", f |-> f, env |-> Len(st.envs) + 1,
                     arguments |-> arguments])))

\* print(self._stringify(val))
PrintValue(v) ==
    IF v.sig # "ok" THEN v
    ELSE [v EXCEPT !.out = Append(@, Stringify(v, v.val))]

\* Interpreter.visit_print_stmt
VisitPrintStmt(stmt, st) == PrintValue(Evaluate(stmt.expression, st))

\* Interpreter.visit_expression_stmt
VisitExpressionStmt(stmt, st) == Evaluate(stmt.expression, st)

\* Interpreter.visit_if_stmt once the condition is evaluated
IfBranch(stmt, c) ==
    IF c.sig # "ok" THEN c
    ELSE IF IsTruthy(c.val) THEN Execute(stmt.then_branch, c)
    ELSE IF stmt.else_branch.t # "None" THEN Execute(stmt.else_branch, c)
    ELSE c

\* Interpreter.visit_if_stmt
VisitIfStmt(stmt, st) == IfBranch(stmt, Evaluate(stmt.condition, st))

RECURSIVE WhileLoop(_, _, _)

\* one turn of the loop, the condition evaluated to c
WhileBody(stmt, c, n) ==
    IF c.sig # "ok" THEN c
    ELSE IF ~ IsTruthy(c.val) THEN c
    ELSE IF n >= MaxLoopIter THEN [c EXCEPT !.sig = "bound"]
    ELSE WhileLoop(stmt, Execute(stmt.body, c), n + 1)

\* the loop of Interpreter.visit_while_stmt, n iterations done; an exception
\* of the body ends it
WhileLoop(stmt, st, n) ==
    IF st.sig # "ok" THEN st
    ELSE WhileBody(stmt, Evaluate(stmt.condition, st), n)

\* Interpreter.visit_while_stmt
VisitWhileStmt(stmt, st) == WhileLoop(stmt, st, 0)

\* Interpreter.visit_block_stmt
VisitBlockStmt(stmt, st) ==
    ExecuteBlock(stmt.statements, Len(st.envs) + 1,
                 NewEnvironment(st, st.cur, [kind |-> "block", id |-> stmt.id]))

\* self._environment.define(stmt.name.lexeme, value)
DefineVar(stmt, v) ==
    IF v.sig # "ok" THEN v
    ELSE Define(v, v.cur, stmt.name.lexeme, v.val)

\* Interpreter.visit_var_stmt
VisitVarStmt(stmt, st) ==
    DefineVar(stmt, IF stmt.initializer.t # "None" THEN Evaluate(stmt.initializer, st)
                    ELSE Ok(st, Nil))

\* visit_function_stmt capturing a copy of the current environment
VisitFunctionStmtCopy(stmt, st) ==
    LET f == Len(st.funs) + 1
        copy == Len(st.envs) + 1
        st1 == [st EXCEPT !.envs = Append(@, st.envs[st.cur]),
                          !.funs = Append(@, LoxFunction(stmt, copy, FALSE))]
    IN  Log(Define(st1, st.cur, stmt.name.lexeme, FunV(f)),
            [ev |-> "declare", f |-> f, env |-> st.cur])

\* Interpreter.visit_function_stmt
VisitFunctionStmt(stmt, st) ==
    LET f == Len(st.funs) + 1
        st1 == [st EXCEPT !.funs = Append(@, LoxFunction(stmt, st.cur, FALSE))]
    IN  Log(Define(st1, st.cur, stmt.name.lexeme, FunV(f)),
            [ev |-> "declare", f |-> f, env |-> st.cur])

RECURSIVE MakeMethods(_, _, _, _, _)
\* the dict comprehension of Interpreter.visit_class_stmt
MakeMethods(st, methods, i, environment, dict) ==
    IF i > Len(methods) THEN [st |-> st, methods |-> dict]
    ELSE MakeMethods([st EXCEPT !.funs = Append(@, LoxFunction(methods[i], environment,
                                             methods[i].name.lexeme = "init"))],
                     methods, i + 1, environment,
                     DictSet(dict, methods[i].name.lexeme, Len(st.funs) + 1))

\* Interpreter.visit_class_stmt from the methods on: environment is where
\* the methods close, superclass the LoxClass or 0, cur where the name is
ClassMethods(stmt, cur, environment, superclass, st) ==
    LET m == MakeMethods(st, stmt.methods, 1, environment, EmptyDict) IN
    EnvAssign([m.st EXCEPT !.classes = Append(@,
                    LoxClass(stmt.name.lexeme, superclass, m.methods))],
              cur, stmt.name, ClassV(Len(st.classes) + 1))

\* Interpreter.visit_class_stmt once the superclass is evaluated, to sc
ClassSuperclass(stmt, cur, sc) ==
    IF sc.sig # "ok" THEN sc
    ELSE IF sc.val.k # "class" THEN RuntimeException(sc, "Superclass must be a class.")
    ELSE ClassMethods(stmt, cur, Len(sc.envs) + 1, sc.val.n,
                      Define(NewEnvironment(sc, cur, [kind |-> "super", id |-> stmt.id]),
                             Len(sc.envs) + 1, "super", sc.val))

\* Interpreter.visit_class_stmt
VisitClassStmt(stmt, st) ==
    IF stmt.superclass.t # "None"
    THEN ClassSuperclass(stmt, st.cur,
                         Evaluate(stmt.superclass,
                                  Define(st, st.cur, stmt.name.lexeme, Nil)))
    ELSE ClassMethods(stmt, st.cur, st.cur, 0,
                      Define(st, st.cur, stmt.name.lexeme, Nil))

\* raise Return(value)
RaiseReturn(v) ==
    IF v.sig # "ok" THEN v
    ELSE ReturnSignal(Log(v, [ev |-> "raise_return", depth |-> v.depth]), v.val)

\* Interpreter.visit_return_stmt
VisitReturnStmt(stmt, st) ==
    RaiseReturn(IF stmt.value.t # "None" THEN Evaluate(stmt.value, st) ELSE Ok(st, Nil))

\* Interpreter._execute: stmt.accept(self)
Execute(stmt, st) ==
    CASE stmt.t = "Print" -> VisitPrintStmt(stmt, st)
      [] stmt.t = "Expression" -> VisitExpressionStmt(stmt, st)
      [] stmt.t = "If" -> VisitIfStmt(stmt, st)
      [] stmt.t = "While" -> VisitWhileStmt(stmt, st)
      [] stmt.t = "Block" -> VisitBlockStmt(stmt, st)
      [] stmt.t = "Var" -> VisitVarStmt(stmt, st)
      [] stmt.t = "Function" -> VisitFunctionStmt(stmt, st)
      [] stmt.t = "Class" -> VisitClassStmt(stmt, st)
      [] stmt.t = "Return" -> VisitReturnStmt(stmt, st)

\* --------------------------------------------------------------- resolver

\* Resolver state after construction; the table is the interpreter's _locals
InitResolver(locals) ==
    [scopes |-> << >>,
     current_function |-> "NONE",
     current_class |-> "NONE",
     unused_vars |-> << >>,
     locals |-> locals,
     chosen |-> [x \in {} |-> 0],
     errors |-> << >>]

\* error_reporter(token, message)
ReportError(rs, token, message) ==
    [rs EXCEPT !.errors = Append(@, [token |-> token, message |-> message])]

\* position of the key token in a scope (a dict keyed by Token, compared
\* field by field), 0 when absent
ScopeIndex(entries, token) ==
    IF \E i \in 1..Len(entries) : entries[i].token = token
    THEN CHOOSE i \in 1..Len(entries) : entries[i].token = token
    ELSE 0

\* scope[token] = state
ScopePut(entries, token, state) ==
    IF ScopeIndex(entries, token) # 0
    THEN [entries EXCEPT ![ScopeIndex(entries, token)].state = state]
    ELSE Append(entries, [token |-> token, state |-> state])

\* self.scopes[-1][token] = state
ScopeSet(rs, token, state) ==
    [rs EXCEPT !.scopes[Len(rs.scopes)].entries = ScopePut(@, token, state)]

\* Resolver._begin_scope
BeginScope(rs, origin) ==
    [rs EXCEPT !.scopes = Append(@, [origin |-> origin, entries |-> << >>])]

RECURSIVE UnusedOf(_, _)
\* the tokens of a scope whose state is not IN_USE, from entry i on
UnusedOf(entries, i) ==
    IF i > Len(entries) THEN << >>
    ELSE (IF entries[i].state # "IN_USE" THEN << entries[i].token >> ELSE << >>)
         \o UnusedOf(entries, i + 1)

\* Resolver._end_scope
EndScope(rs) ==
    [rs EXCEPT !.scopes = SubSeq(@, 1, Len(@) - 1),
               !.unused_vars = @ \o UnusedOf(rs.scopes[Len(rs.scopes)].entries, 1)]

\* Resolver._declare
Declare(rs, name) ==
    IF Len(rs.scopes) = 0 THEN rs ELSE ScopeSet(rs, name, "DECLARED")

\* Resolver._define
DefineName(rs, name) ==
    IF Len(rs.scopes) = 0 THEN rs ELSE ScopeSet(rs, name, "DEFINED")

\* first entry of a scope with this lexeme, 0 when none
LexemeIndex(entries, lexeme) ==
    IF \E j \in 1..Len(entries) : entries[j].token.lexeme = lexeme
    THEN CHOOSE j \in 1..Len(entries) :
            /\ entries[j].token.lexeme = lexeme
            /\ \A h \in 1..(j - 1) : entries[h].token.lexeme # lexeme
    ELSE 0

RECURSIVE ResolveLocalFrom(_, _, _, _)
\* the loop of Resolver._resolve_local, at scope i
ResolveLocalFrom(rs, id, name, i) ==
    IF i < 1 THEN rs
    ELSE IF LexemeIndex(rs.scopes[i].entries, name.lexeme) # 0
         THEN [rs EXCEPT !.locals = DictSet(@, id, Len(rs.scopes) - i),
                         !.chosen = DictSet(@, id, rs.scopes[i].origin),
                         !.scopes[i].entries[
                             LexemeIndex(rs.scopes[i].entries, name.lexeme)].state
                                 = "IN_USE"]
         ELSE ResolveLocalFrom(rs, id, name, i - 1)

\* Resolver._resolve_local
ResolveLocal(rs, expr, name) == ResolveLocalFrom(rs, expr.id, name, Len(rs.scopes))

RECURSIVE ResolveStmt(_, _)
RECURSIVE ResolveExpr(_, _)

RECURSIVE ResolveStmts(_, _, _)
\* Resolver._resolve, from statement i on. Python visits a statement on the
\* state the one before it left: the test of rs.scopes has rs evaluated here,
\* before the loop goes on, and is never true
ResolveStmts(rs, statements, i) ==
    IF i > Len(statements) \/ Len(rs.scopes) < 0 THEN rs
    ELSE ResolveStmts(ResolveStmt(rs, statements[i]), statements, i + 1)

RECURSIVE ResolveExprs(_, _, _)
\* for arg in expr.arguments: self._resolve_expr(arg)
ResolveExprs(rs, exprs, i) ==
    IF i > Len(exprs) THEN rs
    ELSE ResolveExprs(ResolveExpr(rs, exprs[i]), exprs, i + 1)

RECURSIVE DeclareParams(_, _, _)
\* for param in stmt.params: declare, define
DeclareParams(rs, params, i) ==
    IF i > Len(params) THEN rs
    ELSE DeclareParams(DefineName(Declare(rs, params[i]), params[i]), params, i + 1)

\* _resolve_function that leaves its function type behind
ResolveFunctionNoRestore(rs, stmt, function_type) ==
    EndScope(
        ResolveStmts(
            DeclareParams(BeginScope([rs EXCEPT !.current_function = function_type],
                                     [kind |-> "call", id |-> stmt.id]),
                          stmt.params, 1),
            stmt.body, 1))

\* Resolver._resolve_function
ResolveFunction(rs, stmt, function_type) ==
    [EndScope(
        ResolveStmts(
            DeclareParams(BeginScope([rs EXCEPT !.current_function = function_type],
                                     [kind |-> "call", id |-> stmt.id]),
                          stmt.params, 1),
            stmt.body, 1))
     EXCEPT !.current_function = rs.current_function]

RECURSIVE ResolveMethods(_, _, _)
\* the method loop of Resolver.visit_class_stmt
ResolveMethods(rs, methods, i) ==
    IF i > Len(methods) \/ Len(rs.scopes) < 0 THEN rs
    ELSE ResolveMethods(
            ResolveFunction(rs, methods[i],
                            IF methods[i].name.lexeme # "init" THEN "METHOD"
                            ELSE "INITIALIZER"),
            methods, i + 1)

\* Resolver.visit_class_stmt up to the check of a class inheriting from
\* itself
ClassDeclare(rs, stmt) ==
    IF stmt.superclass.t # "None" /\ stmt.superclass.name.lexeme = stmt.name.lexeme
    THEN ReportError(DefineName(Declare([rs EXCEPT !.current_class = "CLASS"],
                                        stmt.name), stmt.name),
                     stmt.name, "A class can't inherit from itself.")
    ELSE DefineName(Declare([rs EXCEPT !.current_class = "CLASS"], stmt.name),
                    stmt.name)

\* Resolver.visit_class_stmt: the scope of `this`, the methods in it
ClassThisScope(rs, stmt) ==
    EndScope(ResolveMethods(
        ScopeSet(BeginScope(rs, [kind |-> "this", id |-> stmt.id]),
                 Token("THIS", "this", stmt.name.line), "IN_USE"),
        stmt.methods, 1))

\* Resolver.visit_class_stmt
ResolveClassStmt(rs, stmt) ==
    [(IF stmt.superclass.t # "None"
      THEN EndScope(ClassThisScope(
              ScopeSet(BeginScope(ResolveExpr([ClassDeclare(rs, stmt)
                                               EXCEPT !.current_class = "SUBCLASS"],
                                              stmt.superclass),
                                  [kind |-> "super", id |-> stmt.id]),
                       Token("SUPER", "super", stmt.name.line), "IN_USE"),
              stmt))
      ELSE ClassThisScope(ClassDeclare(rs, stmt), stmt))
     EXCEPT !.current_class = rs.current_class]

\* Resolver.visit_var_stmt
ResolveVarStmt(rs, stmt) ==
    DefineName(IF stmt.initializer.t # "None"
               THEN ResolveExpr(Declare(rs, stmt.name), stmt.initializer)
               ELSE Declare(rs, stmt.name),
               stmt.name)

\* Resolver.visit_return_stmt
ResolveReturnStmt(rs, stmt) ==
    IF Len(rs.scopes) = 0
    THEN ReportError(rs, stmt.keyword, "Can't return from top-level code.")
    ELSE IF stmt.value.t # "None"
         THEN (IF rs.current_function = "INITIALIZER"
               THEN ReportError(rs, stmt.keyword, "Can't return a value from an initializer.")
               ELSE ResolveExpr(rs, stmt.value))
         ELSE rs

\* Resolver.visit_if_stmt from the else branch on
ResolveElse(rs, stmt) ==
    IF stmt.else_branch.t # "None" THEN ResolveStmt(rs, stmt.else_branch) ELSE rs

\* Resolver._resolve_stmt: statement.accept(self)
ResolveStmt(rs, stmt) ==
    CASE stmt.t = "Block" ->
            EndScope(ResolveStmts(BeginScope(rs, [kind |-> "block", id |-> stmt.id]),
                                  stmt.statements, 1))
      [] stmt.t = "Var" -> ResolveVarStmt(rs, stmt)
      [] stmt.t = "Function" ->
            ResolveFunction(DefineName(Declare(rs, stmt.name), stmt.name), stmt, "FUNCTION")
      [] stmt.t = "Class" -> ResolveClassStmt(rs, stmt)
      [] stmt.t = "Expression" -> ResolveExpr(rs, stmt.expression)
      [] stmt.t = "If" ->
            ResolveElse(ResolveStmt(ResolveExpr(rs, stmt.condition), stmt.then_branch),
                        stmt)
      [] stmt.t = "Print" -> ResolveExpr(rs, stmt.expression)
      [] stmt.t = "Return" -> ResolveReturnStmt(rs, stmt)
      [] stmt.t = "While" -> ResolveStmt(ResolveExpr(rs, stmt.condition), stmt.body)

\* Resolver.visit_variable_expr
ResolveVariableExpr(rs, expr) ==
    LET top == rs.scopes[Len(rs.scopes)].entries IN
    IF Len(rs.scopes) > 0
       /\ ScopeIndex(top, expr.name) # 0
       /\ top[ScopeIndex(top, expr.name)].state = "DECLARED"
    THEN ResolveLocal(ReportError(rs, expr.name,
                                  "Can't read local variable in its own initializer."),
                      expr, expr.name)
    ELSE ResolveLocal(rs, expr, expr.name)

\* Resolver.visit_this_expr
ResolveThisExpr(rs, expr) ==
    IF rs.current_class = "NONE"
    THEN ReportError(rs, expr.keyword, "Can't use 'this' outside of a class.")
    ELSE ResolveLocal(rs, expr, expr.keyword)

\* Resolver.visit_super_expr
ResolveSuperExpr(rs, expr) ==
    IF rs.current_class = "NONE"
    THEN ResolveLocal(ReportError(rs, expr.keyword,
                                  "Can't use 'super' outside of a class."),
                      expr, expr.keyword)
    ELSE IF rs.current_class = "CLASS"
    THEN ResolveLocal(ReportError(rs, expr.keyword,
                                  "Can't use 'super' in a class with no superclass."),
                      expr, expr.keyword)
    ELSE ResolveLocal(rs, expr, expr.keyword)

\* Resolver._resolve_expr: expr.accept(self)
ResolveExpr(rs, expr) ==
    CASE expr.t = "Variable" -> ResolveVariableExpr(rs, expr)
      [] expr.t = "Assign" -> ResolveLocal(ResolveExpr(rs, expr.value), expr, expr.name)
      [] expr.t = "Set" -> ResolveExpr(ResolveExpr(rs, expr.value), expr.object)
      [] expr.t = "This" -> ResolveThisExpr(rs, expr)
      [] expr.t = "Super" -> ResolveSuperExpr(rs, expr)
      [] expr.t = "Binary" -> ResolveExpr(ResolveExpr(rs, expr.left), expr.right)
      [] expr.t = "Call" -> ResolveExprs(ResolveExpr(rs, expr.callee), expr.arguments, 1)
      [] expr.t = "Get" -> ResolveExpr(rs, expr.object)
      [] expr.t = "Grouping" -> ResolveExpr(rs, expr.expression)
      [] expr.t = "Literal" -> rs
      [] expr.t = "Logical" -> ResolveExpr(ResolveExpr(rs, expr.left), expr.right)
      [] expr.t = "Unary" -> ResolveExpr(rs, expr.right)

RECURSIVE ReportUnused(_, _)
\* Resolver._report_unused_variables: reversed(self._unused_vars), n of them
\* reported so far
ReportUnused(rs, n) ==
    IF n >= Len(rs.unused_vars) THEN rs
    ELSE ReportUnused(ReportError(rs, rs.unused_vars[Len(rs.unused_vars) - n],
                                  "Unused variable."),
                      n + 1)

\* Resolver.resolve
Resolve(rs, statements) == ReportUnused(ResolveStmts(rs, statements, 1), 0)

\* --------------------------------------------------------------- programs

V(id, lexeme, line) == Variable(id, Ident(lexeme, line))

Op(tt) == Token(tt, tt, 1)

S(x) == Literal(Str(x))

N(i) == Literal(Num(i))

\* Parser._primary on the keywords false, true and nil: the literal it builds
Primary(token_type) ==
    CASE token_type = "FALSE" -> Literal(Str("false"))
      [] token_type = "TRUE" -> Literal(Str("true"))
      [] token_type = "NIL" -> Literal(Str("nil"))

\* fun makeCounter() { var i = 0; fun count() { i = i + 1; return i; } return count; }
\* var c = makeCounter(); print c(); print c();
ProgCounter ==
    << Function(1, Ident("makeCounter", 1), << >>,
                << Var(Ident("i", 2), N(0)),
                   Function(2, Ident("count", 3), << >>,
                            << Expression(Assign(3, Ident("i", 4),
                                  Binary(V(4, "i", 4), Op("PLUS"), N(1)))),
                               Return(5, V(5, "i", 5)) >>),
                   Return(6, V(6, "count", 6)) >>),
       Var(Ident("c", 8), Call(7, V(8, "makeCounter", 8), << >>)),
       PrintStmt(Call(9, V(10, "c", 9), << >>)),
       PrintStmt(Call(11, V(12, "c", 10), << >>)) >>

\* { var v = 1; fun get(p) { return v + p; } print get(0); v = 2; print get(0); }
ProgReassign ==
    << Block(1, << Var(Ident("v", 1), N(1)),
                   Function(2, Ident("get", 2), << Ident("p", 2) >>,
                            << Return(2, Binary(V(3, "v", 2), Op("PLUS"), V(4, "p", 2))) >>),
                   PrintStmt(Call(5, V(6, "get", 3), << N(0) >>)),
                   Expression(Assign(7, Ident("v", 4), N(2))),
                   PrintStmt(Call(8, V(9, "get", 5), << N(0) >>)) >>) >>

\* print "before"; { return; } print "after";
ProgBlockReturn ==
    << PrintStmt(S("before")),
       Block(1, << Return(2, NoNode) >>),
       PrintStmt(S("after")) >>

\* class A { init(x) { this.x = x; } } var a = A(1); print a.x;
ProgInit ==
    << Class(1, Ident("A", 1), NoNode,
             << Function(2, Ident("init", 1), << Ident("x", 1) >>,
                         << Expression(Set(This(3, 1), Ident("x", 1), V(4, "x", 1))) >>) >>),
       Var(Ident("a", 2), Call(5, V(6, "A", 2), << N(1) >>)),
       PrintStmt(Get(V(7, "a", 3), Ident("x", 3))) >>

\* class A { init() { print "A"; return; } } class B < A {} print B();
ProgInherit ==
    << Class(1, Ident("A", 1), NoNode,
             << Function(2, Ident("init", 1), << >>,
                         << PrintStmt(S("A")), Return(1, NoNode) >>) >>),
       Class(3, Ident("B", 2), V(4, "A", 2), << >>),
       PrintStmt(Call(5, V(6, "B", 3), << >>)) >>

\* { var a =
\*     a; print a; }
ProgSelfInit ==
    << Block(1, << Var(Ident("a", 1), V(2, "a", 2)),
                   PrintStmt(V(3, "a", 2)) >>) >>

\* the sources of the tests and of the cases the claims are about
Scenarios ==
    {
      \* var a = "global"; { fun showA() { print a; } showA(); var a = "block"; showA(); }
      << Var(Ident("a", 2), S("global")),
         Block(1, << Function(2, Ident("showA", 4), << >>, << PrintStmt(V(3, "a", 5)) >>),
                     Expression(Call(4, V(5, "showA", 7), << >>)),
                     Var(Ident("a", 8), S("block")),
                     Expression(Call(6, V(7, "showA", 9), << >>)) >>) >>,
      \* fun g() { var x = "local"; fun h() { return x; } return h; }
      \* var h = g(); print h(); var x = "global"; print h();
      << Function(1, Ident("g", 1), << >>,
                  << Var(Ident("x", 1), S("local")),
                     Function(2, Ident("h", 1), << >>, << Return(1, V(3, "x", 1)) >>),
                     Return(1, V(4, "h", 1)) >>),
         Var(Ident("h", 2), Call(5, V(6, "g", 2), << >>)),
         PrintStmt(Call(7, V(8, "h", 3), << >>)),
         Var(Ident("x", 4), S("global")),
         PrintStmt(Call(9, V(10, "h", 5), << >>)) >>,
      ProgCounter,
      ProgReassign,
      ProgBlockReturn,
      \* fun f() { { return 1; } } print f(); { print "in"; }
      \* fun g() { { print undefinedVar; } } g(); print "unreached";
      << Function(1, Ident("f", 1), << >>, << Block(2, << Return(1, N(1)) >>) >>),
         PrintStmt(Call(3, V(4, "f", 2), << >>)),
         Block(5, << PrintStmt(S("in")) >>),
         Function(6, Ident("g", 4), << >>,
                  << Block(7, << PrintStmt(V(8, "undefinedVar", 4)) >>) >>),
         Expression(Call(9, V(10, "g", 5), << >>)),
         PrintStmt(S("unreached")) >>,
      \* print 42 > 17; print "the expression below is invalid"; 14 + "quz";
      \* print "this should not be printed";
      << PrintStmt(Binary(N(42), Op("GREATER"), N(17))),
         PrintStmt(S("the expression below is invalid")),
         Expression(Binary(N(14), Op("PLUS"), S("quz"))),
         PrintStmt(S("this should not be printed")) >>,
      \* { var unused = 1; } print "x";
      << Block(1, << Var(Ident("unused", 1), N(1)) >>),
         PrintStmt(S("x")) >>,
      \* print "x"; return "at the top-level";
      << PrintStmt(S("x")), Return(1, S("at the top-level")) >>,
      \* var a = 0; fun f(x, y) { return x + y; } print f(a = 1, a = 2);
      \* print a; "text"(a = 3, a = 4);
      << Var(Ident("a", 1), N(0)),
         Function(1, Ident("f", 2), << Ident("x", 2), Ident("y", 2) >>,
                  << Return(2, Binary(V(2, "x", 2), Op("PLUS"), V(20, "y", 2))) >>),
         PrintStmt(Call(3, V(4, "f", 3), << Assign(5, Ident("a", 3), N(1)),
                                            Assign(6, Ident("a", 3), N(2)) >>)),
         PrintStmt(V(7, "a", 4)),
         Expression(Call(8, S("text"), << Assign(9, Ident("a", 5), N(3)),
                                          Assign(10, Ident("a", 5), N(4)) >>)) >>,
      \* var a = 0; fun f(x, y) { return x + y; } f(a = 1); print "unreached";
      << Var(Ident("a", 1), N(0)),
         Function(1, Ident("f", 2), << Ident("x", 2), Ident("y", 2) >>,
                  << Return(2, Binary(V(2, "x", 2), Op("PLUS"), V(20, "y", 2))) >>),
         Expression(Call(3, V(4, "f", 3), << Assign(5, Ident("a", 3), N(1)) >>)),
         PrintStmt(S("unreached")) >>,
      ProgInit,
      \* class B {} print B();
      << Class(1, Ident("B", 1), NoNode, << >>),
         PrintStmt(Call(2, V(3, "B", 2), << >>)) >>,
      ProgInherit,
      ProgSelfInit,
      \* { var a = a; print a; }
      << Block(1, << Var(Ident("a", 1), V(2, "a", 1)),
                     PrintStmt(V(3, "a", 1)) >>) >>,
      \* class Spaceship { fly() { print "vrummm"; return this; } }
      \* var s = Spaceship(); s.fly().speed = 3; print s.speed;
      << Class(1, Ident("Spaceship", 1), NoNode,
               << Function(2, Ident("fly", 2), << >>,
                           << PrintStmt(S("vrummm")), Return(2, This(3, 2)) >>) >>),
         Var(Ident("s", 3), Call(4, V(5, "Spaceship", 3), << >>)),
         Expression(Set(Call(6, Get(V(7, "s", 4), Ident("fly", 4)), << >>),
                        Ident("speed", 4), N(3))),
         PrintStmt(Get(V(8, "s", 5), Ident("speed", 5))) >>,
      \* class A { m() { print "A.m"; } } class B < A { m() { super.m(); print "B.m"; } }
      \* B().m();
      << Class(1, Ident("A", 1), NoNode,
               << Function(2, Ident("m", 1), << >>, << PrintStmt(S("A.m")) >>) >>),
         Class(3, Ident("B", 2), V(4, "A", 2),
               << Function(5, Ident("m", 2), << >>,
                           << Expression(Call(6, Super(7, 2, Ident("m", 2)), << >>)),
                              PrintStmt(S("B.m")) >>) >>),
         Expression(Call(8, Get(Call(9, V(10, "B", 3), << >>), Ident("m", 3)), << >>)) >>,
      \* fun fib(n) { if (n < 2) return n; return fib(n - 1) + fib(n - 2); } print fib(3);
      << Function(1, Ident("fib", 1), << Ident("n", 1) >>,
                  << If(Binary(V(2, "n", 1), Op("LESS"), N(2)), Return(1, V(3, "n", 1)), NoNode),
                     Return(1, Binary(
                         Call(4, V(5, "fib", 1), << Binary(V(6, "n", 1), Op("MINUS"), N(1)) >>),
                         Op("PLUS"),
                         Call(7, V(8, "fib", 1), << Binary(V(9, "n", 1), Op("MINUS"), N(2)) >>))) >>),
         PrintStmt(Call(10, V(11, "fib", 2), << N(3) >>)) >>,
      \* var i = 0; while (i < 2) { print i; i = i + 1; } i;
      << Var(Ident("i", 1), N(0)),
         While(Binary(V(1, "i", 2), Op("LESS"), N(2)),
               Block(2, << PrintStmt(V(3, "i", 2)),
                           Expression(Assign(4, Ident("i", 2),
                               Binary(V(5, "i", 2), Op("PLUS"), N(1)))) >>)),
         Expression(V(6, "i", 3)) >>,
      \* fun r() { r(); } r();
      << Function(1, Ident("r", 1), << >>, << Expression(Call(2, V(3, "r", 1), << >>)) >>),
         Expression(Call(4, V(5, "r", 2), << >>)) >>,
      \* while (true) {}
      << While(Primary("TRUE"), Block(1, << >>)) >>,
      \* { var a = 1;
      \*   var b = 2;
      \*   { var c = 3; }
      \*   var d = 4;
      \*   print b; }
      << Block(1, << Var(Ident("a", 1), N(1)),
                     Var(Ident("b", 2), N(2)),
                     Block(2, << Var(Ident("c", 3), N(3)) >>),
                     Var(Ident("d", 4), N(4)),
                     PrintStmt(V(3, "b", 5)) >>) >>,
      \* class A { m() { print "A.m"; } }
      \* class B < A { m() { this.mark = 1; { super.m(); } } }
      \* B().m();
      << Class(1, Ident("A", 1), NoNode,
               << Function(2, Ident("m", 1), << >>, << PrintStmt(S("A.m")) >>) >>),
         Class(3, Ident("B", 2), V(4, "A", 2),
               << Function(5, Ident("m", 2), << >>,
                           << Expression(Set(This(6, 2), Ident("mark", 2), N(1))),
                              Block(7, << Expression(
                                  Call(8, Super(9, 2, Ident("m", 2)), << >>)) >>) >>) >>),
         Expression(Call(10, Get(Call(11, V(12, "B", 3), << >>), Ident("m", 3)),
                         << >>)) >>,
      \* class A { init() { return 1; } }
      \* class B < A { m() { fun g() { print this; } } }
      << Class(1, Ident("A", 1), NoNode,
               << Function(2, Ident("init", 1), << >>, << Return(1, N(1)) >>) >>),
         Class(3, Ident("B", 2), V(4, "A", 2),
               << Function(5, Ident("m", 2), << >>,
                           << Function(6, Ident("g", 2), << >>,
                                       << PrintStmt(This(7, 2)) >>) >>) >>) >> }

\* the statements the generated programs are made of; statement k is on
\* line k and its nodes have the ids 10k+1, 10k+2, ...
Pool ==
    << \* var a = "global";
       Var(Ident("a", 1), S("global")),
       \* a = "changed";
       Expression(Assign(21, Ident("a", 2), S("changed"))),
       \* print a;
       PrintStmt(V(31, "a", 3)),
       \* { var a = "block"; print a; }
       Block(41, << Var(Ident("a", 4), S("block")), PrintStmt(V(42, "a", 4)) >>),
       \* fun f() { return a; }
       Function(51, Ident("f", 5), << >>, << Return(5, V(52, "a", 5)) >>),
       \* print f();
       PrintStmt(Call(61, V(62, "f", 6), << >>)),
       \* { return a; }
       Block(71, << Return(7, V(72, "a", 7)) >>),
       \* f(a = "argument");
       Expression(Call(81, V(82, "f", 8), << Assign(83, Ident("a", 8), S("argument")) >>)),
       \* "text"();
       Expression(Call(91, S("text"), << >>)),
       \* { var u = 1; }
       Block(101, << Var(Ident("u", 10), N(1)) >>) >>

\* the sequences of at most MaxStmts different pool statements
Generated ==
    { [i \in 1..Len(q) |-> Pool[q[i]]] :
        q \in { q \in UNION { [1..n -> 1..Len(Pool)] : n \in 1..MaxStmts } :
                    \A i, j \in 1..Len(q) : i # j => q[i] # q[j] } }

Programs == Scenarios \cup Generated

\* ---------------------------------------------------------------- scanner

\* a Token as the scanner makes it, its literal included
LiteralToken(token_type, lexeme, literal, line) ==
    [token_type |-> token_type, lexeme |-> lexeme, literal |-> literal, line |-> line]

\* Scanner(source, error_reporter): source is the sequence of its characters;
\* errors is what error_reporter was called with, raised the exception that
\* left a method
Scanner(source) ==
    [source |-> source, start |-> 0, current |-> 0, line |-> 1,
     tokens |-> << >>, errors |-> << >>, raised |-> ""]

\* Scanner._is_digit
IsDigit(char) == char \in {"0", "1", "2", "3", "4", "5", "6", "7", "8", "9"}

\* Scanner._is_alpha
IsAlpha(char) ==
    char \in {"a", "b", "c", "d", "e", "f", "g", "h", "i", "j", "k", "l", "m",
              "n", "o", "p", "q", "r", "s", "t", "u", "v", "w", "x", "y", "z",
              "A", "B", "C", "D", "E", "F", "G", "H", "I", "J", "K", "L", "M",
              "N", "O", "P", "Q", "R", "S", "T", "U", "V", "W", "X", "Y", "Z",
              "_"}

\* Scanner._is_at_end
ScannerIsAtEnd(s) == s.current >= Len(s.source)

\* Scanner._advance: source[_current] raises past the end
ScannerAdvance(s) ==
    IF s.current >= Len(s.source) THEN [s EXCEPT !.raised = "IndexError"]
    ELSE [s EXCEPT !.current = @ + 1]

\* Scanner._peek
ScannerPeek(s) == IF ScannerIsAtEnd(s) THEN "\n" ELSE s.source[s.current + 1]

\* Scanner._peek_next
ScannerPeekNext(s) ==
    IF s.current + 1 >= Len(s.source) THEN "\n" ELSE s.source[s.current + 2]

RECURSIVE Slice(_, _, _)
\* source[start:current]
Slice(source, start, current) ==
    IF start >= current \/ start >= Len(source) THEN ""
    ELSE source[start + 1] \o Slice(source, start + 1, current)

\* Scanner._add_token
AddToken(s, token, literal) ==
    [s EXCEPT !.tokens = Append(@, LiteralToken(token, Slice(s.source, s.start, s.current),
                                                literal, s.line))]

\* float(text) for the text of a number token: the whole part, and in s the
\* digits of the fraction up to its last digit that is not 0
Float(source, start, current) ==
    LET dot == IF \E i \in (start + 1)..current : source[i] = "."
               THEN CHOOSE i \in (start + 1)..current : source[i] = "."
               ELSE current + 1
        digit == [c \in {"0", "1", "2", "3", "4", "5", "6", "7", "8", "9"} |->
                    CHOOSE d \in 0..9 :
                        << "0", "1", "2", "3", "4", "5", "6", "7", "8", "9" >>[d + 1] = c]
        RECURSIVE Whole(_)
        Whole(i) == IF i <= start THEN 0 ELSE Whole(i - 1) * 10 + digit[source[i]]
        RECURSIVE Last(_)
        Last(i) == IF i <= dot \/ source[i] # "0" THEN i ELSE Last(i - 1)
    IN  [k |-> "num", n |-> Whole(dot - 1), s |-> Slice(source, dot, Last(current))]

RECURSIVE AdvanceWhile(_, _)
\* while self._peek() is one of these characters: self._advance()
AdvanceWhile(s, characters) ==
    IF s.raised # "" \/ ScannerPeek(s) \notin characters THEN s
    ELSE AdvanceWhile(ScannerAdvance(s), characters)

RECURSIVE StringBody(_)
\* the loop of Scanner._string
StringBody(s) ==
    IF s.raised # "" \/ ScannerPeek(s) = "\"" \/ ScannerIsAtEnd(s) THEN s
    ELSE StringBody(ScannerAdvance(
            IF ScannerPeek(s) = "\n" THEN [s EXCEPT !.line = @ + 1] ELSE s))

\* Scanner._string once its loop is through
ScanString(s) ==
    IF s.raised # "" THEN s
    ELSE IF ScannerIsAtEnd(s)
    THEN [s EXCEPT !.errors = Append(@, [line |-> s.line,
                                         message |-> "Unterminated string."])]
    ELSE AddToken(ScannerAdvance(s), "STRING",
                  Str(Slice(s.source, s.start + 1, s.current)))

\* the characters the sources are written with
Characters ==
    {"(", ")", "{", "}", ",", ".", "-", "+", ";", "*", "!", "=", ">", "<", "/",
     "\"", " ", "\r", "\t", "\n", "@", "#", "$", "0", "1", "2", "3", "4", "5",
     "6", "7", "8", "9"} \cup {c \in {"a", "b", "z", "A", "Z", "_"} : IsAlpha(c)}

\* Scanner._number once the whole part is consumed
ScanNumber(s) ==
    LET end == IF ScannerPeek(s) = "." /\ IsDigit(ScannerPeekNext(s))
               THEN AdvanceWhile(ScannerAdvance(s), {c \in Characters : IsDigit(c)})
               ELSE s
    IN  IF end.raised # "" THEN end
        ELSE AddToken(end, "NUMBER", Float(end.source, end.start, end.current))

\* the default case of _scan_token that makes a token of the character too
UnexpectedCharacterToken(s, default) ==
    AddToken([s EXCEPT !.errors = Append(@, [line |-> s.line,
                                             message |-> "Unexpected character: "
                                                         \o default])],
             "IDENTIFIER", Nil)

\* the end of the default case of Scanner._scan_token
UnexpectedCharacter(s, default) ==
    [s EXCEPT !.errors = Append(@, [line |-> s.line,
                                    message |-> "Unexpected character: " \o default])]

\* Scanner._scan_token
ScanToken(s) ==
    LET c == s.source[s.current + 1]
        a == ScannerAdvance(s)
        single == ("(" :> "LEFT_PAREN") @@ (")" :> "RIGHT_PAREN")
                  @@ ("{" :> "LEFT_BRACE") @@ ("}" :> "RIGHT_BRACE")
                  @@ ("," :> "COMMA") @@ ("." :> "DOT") @@ ("-" :> "MINUS")
                  @@ ("+" :> "PLUS") @@ (";" :> "SEMICOLON") @@ ("*" :> "STAR")
        one == ("!" :> "BANG") @@ ("=" :> "EQUAL") @@ (">" :> "GREATER") @@ ("<" :> "LESS")
    IN  IF a.raised # "" THEN a
        ELSE IF c \in DOMAIN single THEN AddToken(a, single[c], Nil)
        ELSE IF c \in DOMAIN one
        THEN (IF ~ ScannerIsAtEnd(a) /\ a.source[a.current + 1] = "="
              THEN AddToken(ScannerAdvance(a), one[c] \o "_EQUAL", Nil)
              ELSE AddToken(a, one[c], Nil))
        ELSE IF c = "/"
        THEN (IF ~ ScannerIsAtEnd(a) /\ a.source[a.current + 1] = "/"
              THEN AdvanceWhile(ScannerAdvance(a), Characters \ {"\n"})
              ELSE AddToken(a, "SLASH", Nil))
        ELSE IF c = "\"" THEN ScanString(StringBody(a))
        ELSE IF c \in {" ", "\r", "\t"} THEN a
        ELSE IF c = "\n" THEN [a EXCEPT !.line = @ + 1]
        ELSE IF IsDigit(c)
        THEN ScanNumber(AdvanceWhile(a, {x \in Characters : IsDigit(x)}))
        ELSE IF IsAlpha(c)
        THEN AddToken(AdvanceWhile(a, {x \in Characters : IsDigit(x) \/ IsAlpha(x)}),
                      "IDENTIFIER", Nil)
        ELSE UnexpectedCharacter(a, c)

\* ----------------------------------------------------------------- parser

\* the 255 of `len(arguments) > 255` in Parser._finish_call
ArgumentLimit == 255

\* the 255 of `len(parameters) > 255` in Parser._function
ParameterLimit == 255

\* Parser(tokens, error_reporter). errors is what error_reporter was called
\* with, raised the exception on its way, statements the list of parse_all.
\* stack holds the local variables of the methods under way: a method leaves
\* what it returns on top of it
Parser(tokens) ==
    [tokens |-> tokens, current |-> 0, errors |-> << >>, raised |-> "",
     statements |-> << >>, stack |-> << >>]

\* Parser._peek
Peek(p) == p.tokens[p.current + 1]

\* Parser._previous: tokens[-1] is the last token
Previous(p) == IF p.current = 0 THEN p.tokens[Len(p.tokens)] ELSE p.tokens[p.current]

\* Parser._is_at_end
ParserIsAtEnd(p) == Peek(p).token_type = "EOF"

\* Parser._check, for each of the types of a _match
Check(p, types) == ~ ParserIsAtEnd(p) /\ Peek(p).token_type \in types

\* Parser._advance
Advance(p) == IF ParserIsAtEnd(p) THEN p ELSE [p EXCEPT !.current = @ + 1]

\* Parser._error: at is where the parser was
ParserError(p, token, message) ==
    [p EXCEPT !.errors = Append(@, [token |-> token, message |-> message,
                                    at |-> p.current])]

\* raise self._error(self._peek(), message)
RaiseParseError(p, message) ==
    [ParserError(p, Peek(p), message) EXCEPT !.raised = "ParseError"]

\* Parser._consume, the token dropped
Consume(p, token_type, message) ==
    CASE p.raised # "" -> p
      [] Check(p, {token_type}) -> Advance(p)
      [] OTHER -> RaiseParseError(p, message)

\* Parser._consume, the token kept
ConsumeToken(p, token_type, message) ==
    CASE p.raised # "" -> p
      [] Check(p, {token_type}) -> [Advance(p) EXCEPT !.stack = Append(@, Peek(p))]
      [] OTHER -> RaiseParseError(p, message)

\* a method returns v
Push(p, v) == [p EXCEPT !.stack = Append(@, v)]

\* what a method makes of the values a of its locals: the node it returns, or
\* the list it goes on with; x is the token, or the place, that goes into it
Make(kind, x, a) ==
    CASE kind = "Assign" -> Assign(x, a[1].name, a[2])
      [] kind = "Logical" -> Logical(a[1], x, a[2])
      [] kind = "Binary" -> Binary(a[1], x, a[2])
      [] kind = "Unary" -> Unary(x, a[1])
      [] kind = "Grouping" -> Grouping(a[1])
      [] kind = "Call" -> Call(x, a[1], a[2])
      [] kind = "Print" -> PrintStmt(a[1])
      [] kind = "Expression" -> Expression(a[1])
      [] kind = "Var" -> Var(a[1], a[2])
      [] kind = "If" -> If(a[1], a[2], a[3])
      [] kind = "While" -> While(a[1], a[2])
      [] kind = "Block" -> Block(x, a[1])
      [] kind = "Function" -> Function(x, a[1], a[2], a[3])
      [] kind = "For" ->
            LET body == IF a[3] # NoNode THEN Block(x + 1, << a[4], Expression(a[3]) >>)
                        ELSE a[4]
            IN  IF a[1] # NoNode THEN Block(x, << a[1], While(a[2], body) >>)
                ELSE While(a[2], body)
      [] kind = "first" -> a[1]
      [] kind = "append" -> Append(a[1], a[2])
      [] kind = "append if any" -> IF a[2] # NoNode THEN Append(a[1], a[2]) ELSE a[1]

\* a method puts together what the last n calls returned
Reduce(p, n, kind, x) ==
    IF p.raised # "" THEN p
    ELSE [p EXCEPT !.stack = Append(SubSeq(@, 1, Len(@) - n),
                                    Make(kind, x, SubSeq(@, Len(@) - n + 1, Len(@))))]

\* a local variable that was annotated and never assigned
Unbound == [t |-> "Unbound"]

RECURSIVE ParseAssignment(_)
RECURSIVE ParseBinary(_, _)
RECURSIVE ParseUnary(_)
RECURSIVE ParseDeclaration(_)
RECURSIVE ParseStatement(_)

\* Parser._expression
ParseExpression(p) == ParseAssignment(p)

\* Parser._assignment
ParseAssignment(p) ==
    LET Assigned(equals, v) ==
            CASE v.raised # "" -> v
              [] v.stack[Len(v.stack) - 1].t = "Variable" -> Reduce(v, 2, "Assign", equals)
              [] OTHER ->
                    Reduce(ParserError(v, v.tokens[equals], "Invalid assignment target."),
                           2, "first", equals)
        Target(r) ==
            CASE r.raised # "" -> r
              [] Check(r, {"EQUAL"}) -> Assigned(r.current + 1, ParseAssignment(Advance(r)))
              [] OTHER -> r
    IN  Target(ParseBinary(1, p))

RECURSIVE BinaryLoop(_, _)
\* the loops of Parser._or, _and, _equality, _comparison, _term and _factor,
\* levels 1 to 6: r is the parser after the left operand
BinaryLoop(level, r) ==
    LET types == << {"OR"}, {"AND"}, {"BANG_EQUAL", "EQUAL_EQUAL"},
                    {"GREATER", "GREATER_EQUAL", "LESS", "LESS_EQUAL"},
                    {"PLUS", "MINUS"}, {"SLASH", "STAR"} >>
    IN  CASE r.raised # "" -> r
          [] Check(r, types[level]) ->
                BinaryLoop(level,
                           Reduce(ParseBinary(level + 1, Advance(r)), 2,
                                  IF level <= 2 THEN "Logical" ELSE "Binary", Peek(r)))
          [] OTHER -> r

RECURSIVE LeftOperand(_, _, _)
\* the way back from Parser._unary to the method of a level: r is what the
\* method of level inner + 1 returned, and each method on the way runs its loop
LeftOperand(inner, level, r) ==
    CASE inner < level -> r
      [] r.raised # "" -> r
      [] OTHER -> LeftOperand(inner - 1, level, BinaryLoop(inner, r))

\* Parser._or, _and, _equality, _comparison, _term and _factor: each starts by
\* calling the next one, so the first thing that is parsed is a unary
ParseBinary(level, p) == LeftOperand(6, level, ParseUnary(p))

\* Parser._primary
ParsePrimary(p) ==
    CASE p.raised # "" -> p
      [] Check(p, {"FALSE", "TRUE", "NIL"}) ->
            Push(Advance(p), Primary(Peek(p).token_type))
      [] Check(p, {"NUMBER", "STRING"}) -> Push(Advance(p), Literal(Peek(p).literal))
      [] Check(p, {"IDENTIFIER"}) -> Push(Advance(p), Variable(p.current + 1, Peek(p)))
      [] Check(p, {"LEFT_PAREN"}) ->
            Reduce(Consume(ParseExpression(Advance(p)),
                           "RIGHT_PAREN", "Expect ')' after expression."),
                   1, "Grouping", p.current + 1)
      [] OTHER -> RaiseParseError(p, "Expect expression.")

RECURSIVE Arguments(_, _)
\* the loop of Parser._finish_call, for n iterations at most: r is the parser
\* before the first argument, or after an argument. The iterations are made
\* half by half, which keeps the evaluation of a long loop shallow
Arguments(r, n) ==
    LET Checked(p) ==
            IF Len(p.stack[Len(p.stack)]) > ArgumentLimit
            THEN ParserError(p, Peek(p), "Can't have more than 255 arguments.")
            ELSE p
    IN  CASE n = 0 -> r
          [] r.raised # "" -> r
          [] r.stack[Len(r.stack)] # << >> /\ ~ Check(r, {"COMMA"}) -> r
          [] n = 1 ->
                Reduce(ParseExpression(Checked(IF r.stack[Len(r.stack)] = << >> THEN r
                                               ELSE Advance(r))),
                       2, "append", r.current)
          [] OTHER -> Arguments(Arguments(r, n \div 2), n - (n \div 2))

\* Parser._finish_call: p is the parser after the left parenthesis
FinishCall(p) ==
    Reduce(Consume(IF Check(p, {"RIGHT_PAREN"}) THEN Push(p, << >>)
                   ELSE Arguments(Push(p, << >>), Len(p.tokens)),
                   "RIGHT_PAREN", "Expect ')' after arguments."),
           2, "Call", p.current)

RECURSIVE CallLoop(_)
\* the loop of Parser._call: r is the parser after the callee
CallLoop(r) ==
    CASE r.raised # "" -> r
      [] Check(r, {"LEFT_PAREN"}) -> CallLoop(FinishCall(Advance(r)))
      [] OTHER -> r

\* Parser._unary
ParseUnary(p) ==
    CASE p.raised # "" -> p
      [] Check(p, {"BANG", "MINUS"}) -> Reduce(ParseUnary(Advance(p)), 1, "Unary", Peek(p))
      [] OTHER -> CallLoop(ParsePrimary(p))

\* Parser._print_statement: p is the parser after the keyword
PrintStatement(p) ==
    Reduce(Consume(ParseExpression(p), "SEMICOLON", "Expect ';' after value."),
           1, "Print", p.current)

\* Parser._expression_statement
ExpressionStatement(p) ==
    Reduce(Consume(ParseExpression(p), "SEMICOLON", "Expect ';' after expression."),
           1, "Expression", p.current)

\* Parser._var_declaration: p is the parser after the keyword
VarDeclaration(p) ==
    LET Initializer(r) ==
            IF r.raised # "" THEN r
            ELSE IF Check(r, {"EQUAL"}) THEN ParseExpression(Advance(r))
            ELSE Push(r, NoNode)
    IN  Reduce(Consume(Initializer(ConsumeToken(p, "IDENTIFIER", "Expect variable name.")),
                       "SEMICOLON", "Expect ';' after variable declaration."),
               2, "Var", p.current)

\* Parser._if_statement: p is the parser after the keyword
IfStatement(p) ==
    LET Else(r) ==
            IF r.raised # "" THEN r
            ELSE IF Check(r, {"ELSE"}) THEN ParseStatement(Advance(r))
            ELSE Push(r, NoNode)
    IN  Reduce(Else(ParseStatement(
                   Consume(ParseExpression(Consume(p, "LEFT_PAREN", "Expect '(' after 'if'.")),
                           "RIGHT_PAREN", "Expect ')' after if condition."))),
               3, "If", p.current)

\* Parser._while_statement: p is the parser after the keyword
WhileStatement(p) ==
    Reduce(ParseStatement(
               Consume(ParseExpression(Consume(p, "LEFT_PAREN", "Expect '(' after 'while'.")),
                       "RIGHT_PAREN", "Expect ')' after while condition.")),
           2, "While", p.current)

\* Parser._for_statement: p is the parser after the keyword. The four locals
\* are initializer, condition, increment and body; condition stays unbound
\* when the clause is empty, and `if not condition` then raises
ForStatement(p) ==
    LET Initializer(r) ==
            IF r.raised # "" THEN r
            ELSE IF Check(r, {"SEMICOLON"}) THEN Push(Advance(r), NoNode)
            ELSE IF Check(r, {"VAR"}) THEN VarDeclaration(Advance(r))
            ELSE ExpressionStatement(r)
        Condition(r) ==
            IF r.raised # "" THEN r
            ELSE Consume(IF ~ Check(r, {"SEMICOLON"}) THEN ParseExpression(r)
                         ELSE Push(r, Unbound),
                         "SEMICOLON", "Expect ';' after loop condition.")
        Increment(r) ==
            IF r.raised # "" THEN r
            ELSE Consume(IF ~ Check(r, {"RIGHT_PAREN"}) THEN ParseExpression(r)
                         ELSE Push(r, NoNode),
                         "RIGHT_PAREN", "expect ')' after for clauses.")
        Desugar(r) ==
            IF r.raised # "" THEN r
            ELSE IF r.stack[Len(r.stack) - 2] = Unbound
            THEN [r EXCEPT !.raised = "UnboundLocalError"]
            ELSE Reduce(r, 4, "For", p.current)
    IN  Desugar(ParseStatement(Increment(Condition(Initializer(
            Consume(p, "LEFT_PAREN", "Expect '(' after 'for'."))))))

RECURSIVE BlockLoop(_)
\* the loop of Parser._block and its _consume: the list is on the stack
BlockLoop(p) ==
    CASE p.raised # "" -> p
      [] ~ Check(p, {"RIGHT_BRACE"}) /\ ~ ParserIsAtEnd(p) ->
            BlockLoop(Reduce(ParseDeclaration(p), 2, "append if any", p.current))
      [] OTHER -> Consume(p, "RIGHT_BRACE", "Expect '}' after a block.")

\* Parser._block
ParseBlock(p) == BlockLoop(Push(p, << >>))

RECURSIVE Parameters(_, _)
\* the loop of Parser._function, for n iterations at most and half by half
\* as well: r is the parser before the first parameter, or after a parameter
Parameters(r, n) ==
    LET Checked(p) ==
            IF Len(p.stack[Len(p.stack)]) > ParameterLimit
            THEN ParserError(p, Peek(p), "Can't have more than 255 parameters.")
            ELSE p
    IN  CASE n = 0 -> r
          [] r.raised # "" -> r
          [] r.stack[Len(r.stack)] # << >> /\ ~ Check(r, {"COMMA"}) -> r
          [] n = 1 ->
                Reduce(ConsumeToken(Checked(IF r.stack[Len(r.stack)] = << >> THEN r
                                            ELSE Advance(r)),
                                    "IDENTIFIER", "Expect parameter name."),
                       2, "append", r.current)
          [] OTHER -> Parameters(Parameters(r, n \div 2), n - (n \div 2))

\* Parser._function: p is the parser after the keyword
ParseFunction(p, kind) ==
    LET ParameterList(r) ==
            IF r.raised # "" THEN r
            ELSE IF Check(r, {"RIGHT_PAREN"}) THEN Push(r, << >>)
            ELSE Parameters(Push(r, << >>), Len(r.tokens))
    IN  Reduce(ParseBlock(
                   Consume(Consume(ParameterList(
                                       Consume(ConsumeToken(p, "IDENTIFIER",
                                                            "Expect " \o kind \o " name."),
                                               "LEFT_PAREN",
                                               "Expected '(' after " \o kind \o " name.")),
                                   "RIGHT_PAREN", "Expect ')' after parameters."),
                           "LEFT_BRACE", "Expect '{' before " \o kind \o " body.")),
               3, "Function", p.current + 1)

\* Parser._statement
ParseStatement(p) ==
    CASE p.raised # "" -> p
      [] Check(p, {"PRINT"}) -> PrintStatement(Advance(p))
      [] Check(p, {"IF"}) -> IfStatement(Advance(p))
      [] Check(p, {"WHILE"}) -> WhileStatement(Advance(p))
      [] Check(p, {"FOR"}) -> ForStatement(Advance(p))
      [] Check(p, {"LEFT_BRACE"}) ->
            Reduce(ParseBlock(Advance(p)), 1, "Block", p.current + 1)
      [] OTHER -> ExpressionStatement(p)

RECURSIVE Synchronize(_)
\* the loop of Parser._synchronize
Synchronize(p) ==
    IF ParserIsAtEnd(p) \/ Previous(p).token_type = "SEMICOLON"
       \/ Peek(p).token_type \in {"CLASS", "FUN", "VAR", "FOR", "IF", "WHILE", "PRINT",
                                  "RETURN"}
    THEN p
    ELSE Synchronize(Advance(p))

\* Parser._declaration: the except clause drops the locals of the methods the
\* ParseError left, and None is returned
ParseDeclaration(p) ==
    LET Except(r) ==
            IF r.raised # "ParseError" THEN r
            ELSE [Synchronize(Advance([r EXCEPT !.raised = ""]))
                  EXCEPT !.stack = Append(p.stack, NoNode)]
    IN  CASE p.raised # "" -> p
          [] Check(p, {"FUN"}) -> Except(ParseFunction(Advance(p), "function"))
          [] Check(p, {"VAR"}) -> Except(VarDeclaration(Advance(p)))
          [] OTHER -> Except(ParseStatement(p))

\* one iteration of the loop of Parser.parse_all: r is the parser after
\* _declaration
ParseAllAppend(r) ==
    IF r.raised # "" THEN r
    ELSE [r EXCEPT !.statements = IF r.stack[Len(r.stack)] # NoNode
                                  THEN Append(@, r.stack[Len(r.stack)]) ELSE @,
                   !.stack = << >>]

\* ----------------------------------------------------------------- driver

VARIABLES
    pc,               \* where the driver is
    mode,             \* "run": Pylox.run; "harness": resolve, then interpret_all
    prog,             \* the statements parse_all returned
    syntaxErrors,     \* whether the scanner or the parser reported an error
    hadError,         \* Pylox._had_error
    hadRuntimeError,  \* Pylox._had_runtime_error
    rs,               \* the Resolver
    st,               \* the Interpreter
    idx,              \* the statement the loop is at
    rtReports,        \* what the interpreter's error_reporter was called with
    exitCode,
    scanner,          \* the Scanner
    parser            \* the Parser

vars == << pc, mode, prog, syntaxErrors, hadError, hadRuntimeError, rs, st, idx,
           rtReports, exitCode, scanner, parser >>

Init ==
    /\ pc = "start"
    /\ mode \in {"run", "harness"}
    /\ prog \in Programs
    /\ syntaxErrors \in BOOLEAN
    /\ (mode = "harness" => ~ syntaxErrors)
    /\ hadError = FALSE
    /\ hadRuntimeError = FALSE
    /\ rs = InitResolver([x \in {} |-> 0])
    /\ st = InitInterpreter
    /\ idx = 1
    /\ rtReports = << >>
    /\ exitCode = -1
    /\ scanner = Scanner(<< >>)
    /\ parser = Parser(<< >>)

\* Pylox.run up to the first check of _had_error: _scan and _parse_all
\* report through _report, which sets _had_error
ScanAndParse ==
    /\ pc = "start"
    /\ hadError' = syntaxErrors
    /\ pc' = IF mode = "run" /\ syntaxErrors THEN "exit" ELSE "resolve"
    /\ UNCHANGED << mode, prog, syntaxErrors, hadRuntimeError, rs, st, idx,
                    rtReports, exitCode >>
    /\ UNCHANGED << scanner, parser >>

\* Pylox.run going on without looking at _had_error after the resolver
AfterResolveNoCheck(had_error) == "interpret"

\* the second check of _had_error in Pylox.run; the harness has none
AfterResolve(had_error) == IF mode = "run" /\ had_error THEN "exit" ELSE "interpret"

\* Resolver(interpreter, error_reporter).resolve(stmts)
RunResolver ==
    /\ pc = "resolve"
    /\ rs' = Resolve(InitResolver(st.locals), prog)
    /\ st' = [st EXCEPT !.locals = rs'.locals]
    /\ hadError' = (hadError \/ (mode = "run" /\ Len(rs'.errors) > 0))
    /\ pc' = AfterResolve(hadError')
    /\ UNCHANGED << mode, prog, syntaxErrors, hadRuntimeError, idx, rtReports, exitCode >>
    /\ UNCHANGED << scanner, parser >>

\* where the driver goes when interpret_all returns
AfterInterpretAll == IF mode = "run" THEN "post" ELSE "done"

\* an except clause inside the loop of interpret_all: the loop goes on
CatchRuntimeExceptionContinue(r) ==
    /\ st' = [r EXCEPT !.sig = "ok"]
    /\ rtReports' = Append(rtReports, [message |-> r.msg, stmt |-> idx])
    /\ hadRuntimeError' = (hadRuntimeError \/ mode = "run")
    /\ pc' = pc
    /\ idx' = idx + 1

\* the except clause of Interpreter.interpret_all: error_reporter(e), which
\* in Pylox is runtime_error, and interpret_all returns
CatchRuntimeException(r) ==
    /\ st' = [r EXCEPT !.sig = "ok"]
    /\ rtReports' = Append(rtReports, [message |-> r.msg, stmt |-> idx])
    /\ hadRuntimeError' = (hadRuntimeError \/ mode = "run")
    /\ pc' = AfterInterpretAll
    /\ idx' = 1

\* the try of interpret_all around one statement: r is what _execute left
ExecuteResult(r) ==
    CASE r.sig = "ok" ->
            /\ st' = r
            /\ idx' = idx + 1
            /\ UNCHANGED << pc, rtReports, hadRuntimeError >>
      [] r.sig = "error" -> CatchRuntimeException(r)
      [] r.sig = "bound" ->
            /\ st' = r
            /\ pc' = "diverged"
            /\ UNCHANGED << idx, rtReports, hadRuntimeError >>
      [] OTHER ->
            /\ st' = r
            /\ pc' = "uncaught"
            /\ UNCHANGED << idx, rtReports, hadRuntimeError >>

\* one iteration of the loop of Interpreter.interpret_all, with its except
InterpretAllStep ==
    /\ pc = "interpret"
    /\ idx <= Len(prog)
    /\ ExecuteResult(Execute(prog[idx], Log(st, [ev |-> "execute", stmt |-> idx])))
    /\ UNCHANGED << mode, prog, syntaxErrors, hadError, rs, exitCode >>
    /\ UNCHANGED << scanner, parser >>

\* the loop of Interpreter.interpret_all is through
InterpretAllReturn ==
    /\ pc = "interpret"
    /\ idx > Len(prog)
    /\ pc' = AfterInterpretAll
    /\ idx' = 1
    /\ UNCHANGED << mode, prog, syntaxErrors, hadError, hadRuntimeError, rs, st,
                    rtReports, exitCode >>
    /\ UNCHANGED << scanner, parser >>

\* Interpreter.interpret with its except, and `if res: print(res)`: r is what
\* _evaluate left
InterpretResult(r) ==
    CASE r.sig = "ok" ->
            /\ st' = IF Stringify(r, r.val) # ""
                     THEN [r EXCEPT !.out = Append(@, Stringify(r, r.val))]
                     ELSE r
            /\ idx' = idx + 1
            /\ UNCHANGED << pc, rtReports, hadRuntimeError >>
      [] r.sig = "error" ->
            /\ st' = [r EXCEPT !.sig = "ok"]
            /\ rtReports' = Append(rtReports, [message |-> r.msg, stmt |-> idx])
            /\ hadRuntimeError' = TRUE
            /\ idx' = idx + 1
            /\ UNCHANGED pc
      [] r.sig = "bound" ->
            /\ st' = r
            /\ pc' = "diverged"
            /\ UNCHANGED << idx, rtReports, hadRuntimeError >>
      [] OTHER ->
            /\ st' = r
            /\ pc' = "uncaught"
            /\ UNCHANGED << idx, rtReports, hadRuntimeError >>

\* one iteration of the loop that ends Pylox.run, with Interpreter.interpret
PrintExpressionStep ==
    /\ pc = "post"
    /\ idx <= Len(prog)
    /\ IF prog[idx].t # "Expression"
       THEN /\ idx' = idx + 1
            /\ UNCHANGED << pc, st, rtReports, hadRuntimeError >>
       ELSE InterpretResult(Evaluate(prog[idx].expression,
                                     Log(st, [ev |-> "interpret", stmt |-> idx])))
    /\ UNCHANGED << mode, prog, syntaxErrors, hadError, rs, exitCode >>
    /\ UNCHANGED << scanner, parser >>

\* Pylox.run returns
RunReturn ==
    /\ pc = "post"
    /\ idx > Len(prog)
    /\ pc' = "exit"
    /\ UNCHANGED << mode, prog, syntaxErrors, hadError, hadRuntimeError, rs, st, idx,
                    rtReports, exitCode >>
    /\ UNCHANGED << scanner, parser >>

\* Pylox._handle_errors, and exit(0) of main when it does not exit
HandleErrors ==
    /\ pc = "exit"
    /\ exitCode' = IF hadError THEN 65 ELSE IF hadRuntimeError THEN 70 ELSE 0
    /\ pc' = "done"
    /\ UNCHANGED << mode, prog, syntaxErrors, hadError, hadRuntimeError, rs, st, idx,
                    rtReports >>
    /\ UNCHANGED << scanner, parser >>

Next ==
    \/ ScanAndParse
    \/ RunResolver
    \/ InterpretAllStep
    \/ InterpretAllReturn
    \/ PrintExpressionStep
    \/ RunReturn
    \/ HandleErrors

Spec == Init /\ [][Next]_vars

\* ------------------------------------------------------------ properties

Trace == st.trace

\* the resolver ran and reported nothing, and neither did scanner or parser
NoStaticError == ~ syntaxErrors /\ Len(rs.errors) = 0

\* the run-time environment is the one the scope chosen at resolve time
\* stands for: same kind of scope, and the same block or function
OriginMatches(runtime, static) ==
    /\ runtime.kind = static.kind
    /\ (static.kind \in {"block", "call"} => runtime.id = static.id)

\* C1: once the resolver has run, a variable use without a resolution entry
\* reads the global environment (or finds the name undefined there) and a
\* use with an entry reads, at its distance, the environment of the scope the
\* resolver chose, never globals; whatever was bound in the meantime.
C1_StaticBinding ==
    \A i \in 1..(Len(Trace) - 1) :
        Trace[i].ev = "use" =>
            IF Trace[i].id \in DOMAIN st.locals
            THEN /\ Trace[i + 1].ev = "get_at"
                 /\ Trace[i + 1].env # GlobalsId
                 /\ Trace[i + 1].env # 0
                 /\ OriginMatches(st.envs[Trace[i + 1].env].origin,
                                  rs.chosen[Trace[i].id])
            ELSE /\ Trace[i + 1].ev = "get"
                 /\ Trace[i + 1].env \in {0, GlobalsId}

\* an unresolved use read globals at a moment when a walk up the current
\* chain would have found the name in a local environment
C1_Witness ==
    \E i \in 1..(Len(Trace) - 1) :
        /\ Trace[i].ev = "use"
        /\ Trace[i].id \notin DOMAIN st.locals
        /\ DOMAIN st.locals # {}
        /\ Trace[i].dynamic \notin {0, GlobalsId}
        /\ Trace[i + 1].env = GlobalsId

\* C2: on a program without static errors, every get_at and assign_at made
\* with a recorded distance finds the chain long enough and the name bound
\* in the environment it reaches.
C2_ResolvedAccessBound ==
    NoStaticError =>
        \A i \in 1..Len(Trace) :
            (Trace[i].ev \in {"get_at", "assign_at"} /\ Trace[i].key.kind = "str")
                => (Trace[i].env # 0 /\ Trace[i].bound)

\* the block_exit events of block execution b
ExitsOf(b) == { j \in 1..Len(Trace) : Trace[j].ev = "block_exit" /\ Trace[j].b = b }

\* C3: every execution of _execute_block puts back, exactly once and on
\* every exit path, the environment that was current on entry; so between
\* two top-level statements the current environment is globals.
C3_BlockRestores ==
    pc # "diverged" =>
        /\ st.cur = GlobalsId
        /\ \A i \in 1..Len(Trace) :
              Trace[i].ev = "block_enter" =>
                  /\ Cardinality(ExitsOf(Trace[i].b)) = 1
                  /\ \A j \in ExitsOf(Trace[i].b) :
                        /\ j > i
                        /\ Trace[j].before = Trace[i].environment
                        /\ Trace[j].after = Trace[i].previous

\* blocks were left normally, by a Return and by a runtime error
C3_Witness ==
    /\ pc = "done"
    /\ \A how \in {"ok", "return", "error"} :
          \E j \in 1..Len(Trace) : Trace[j].ev = "block_exit" /\ Trace[j].sig = how

\* the fn_enter events
Invocations == { i \in 1..Len(Trace) : Trace[i].ev = "fn_enter" }

\* C4: a call of a declared function runs in a fresh environment whose
\* enclosing environment is the very environment that was current at the
\* declaration, so calls see later writes and each other's writes: the
\* counter prints 1 then 2, and get() prints 1 and, after v = 2, 2.
C4_ClosureShared ==
    /\ \A i \in Invocations :
          /\ \A d \in 1..Len(Trace) :
                (Trace[d].ev = "declare" /\ Trace[d].f = Trace[i].f)
                    => st.envs[Trace[i].env].enclosing = Trace[d].env
          /\ \A j \in Invocations : j # i => Trace[j].env # Trace[i].env
          /\ \A h \in 1..(i - 1) :
                Trace[h].ev = "block_enter" => Trace[h].environment # Trace[i].env
    /\ (prog \in {ProgCounter, ProgReassign} /\ pc = "done" /\ mode = "harness")
          => st.out = << "1", "2" >>

\* the second call of the counter has returned 2
C4_Witness ==
    /\ prog = ProgCounter
    /\ pc = "done"
    /\ st.out = << "1", "2" >>
    /\ Cardinality(Invocations) = 3

\* C5: on a program without static errors no Return leaves interpret_all
\* and none is reported as an error.
C5_ReturnAbsorbed ==
    NoStaticError => ~ (pc = "uncaught" /\ st.sig = "return")

IsPrefix(a, b) == Len(a) <= Len(b) /\ SubSeq(b, 1, Len(a)) = a

\* C6: interpret_all runs the statements in order; the first runtime error
\* is reported once, ends interpret_all for good, and leaves the output and
\* the global variables of the statements before it in place.
C6_FirstErrorStops ==
    [][ /\ (pc = "interpret" /\ pc' = "interpret" /\ st' # st) => idx' = idx + 1
        /\ (pc = "interpret" /\ rtReports' # rtReports) =>
              /\ rtReports' = Append(rtReports, [message |-> st'.msg, stmt |-> idx])
              /\ \A i \in 1..Len(rtReports) : rtReports[i].stmt # idx
              /\ pc' # "interpret"
              /\ IsPrefix(st.out, st'.out)
              /\ DOMAIN st.envs[GlobalsId].values \subseteq DOMAIN st'.envs[GlobalsId].values
        /\ (pc # "interpret" /\ pc # "resolve") => pc' # "interpret"
        /\ (mode = "harness" /\ Len(rtReports) > 0) => (st' = st /\ rtReports' = rtReports)
      ]_vars

\* a runtime error was reported after some output, with statements left
C6_Witness ==
    /\ mode = "harness"
    /\ pc = "done"
    /\ Len(rtReports) = 1
    /\ rtReports[1].stmt < Len(prog)
    /\ Len(st.out) > 0

\* C7: in run, a source with a scanner, parser or resolver error has none of
\* its statements or expressions evaluated: the interpreter is as built.
C7_StaticErrorSkipsEvaluation ==
    (mode = "run" /\ (syntaxErrors \/ Len(rs.errors) > 0))
        => [st EXCEPT !.locals = InitInterpreter.locals] = InitInterpreter

\* run ended on a resolver error
C7_Witness ==
    /\ mode = "run"
    /\ Len(rs.errors) > 0
    /\ pc = "done"
    /\ exitCode = 65

\* the events of call evaluation cid, in order
CallEvents(cid) == SelectSeq(Trace, LAMBDA e : "cid" \in DOMAIN e /\ e.cid = cid)

\* what visit_call_expr has to do once callee and arguments are evaluated
CallDecision(callee, nargs) ==
    IF ~ IsCallable(callee) THEN "not_callable"
    ELSE IF Arity(st, callee) # nargs THEN "bad_arity"
    ELSE "invoke"

\* C8: a call evaluates the callee, then the arguments left to right, and
\* only then fails on a non-callable or on an arity mismatch, with these
\* messages, or else invokes the callable, once (the call of a function
\* enters its body with the evaluated arguments unless the host stack is
\* exhausted).
C8_CallOrder ==
    /\ \A cid \in 1..st.ncalls :
          LET E == CallEvents(cid)
              n == E[1].nargs
          IN  /\ Len(E) >= 1 /\ Len(E) <= n + 3
              /\ E[1].ev = "call_begin"
              /\ \A k \in 2..Len(E) :
                    /\ (k = 2) => E[k].ev = "callee"
                    /\ (k >= 3 /\ k <= n + 2) => (E[k].ev = "argument" /\ E[k].i = k - 2)
                    /\ (k = n + 3) => E[k].ev = CallDecision(E[2].callee, n)
    /\ \A p \in 1..Len(Trace) :
          /\ (Trace[p].ev = "invoke" /\ p < Len(Trace)
                /\ CallEvents(Trace[p].cid)[2].callee.k = "fun")
                => \/ /\ Trace[p + 1].ev = "fn_enter"
                      /\ Trace[p + 1].f = CallEvents(Trace[p].cid)[2].callee.n
                      /\ Trace[p + 1].arguments = Trace[p].arguments
                   \/ /\ st.msg = "RecursionError"
                      /\ \A q \in (p + 1)..Len(Trace) : Trace[q].ev # "fn_enter"
          /\ Trace[p].ev = "not_callable"
                => \E i \in 1..Len(rtReports) :
                      rtReports[i].message = "Can only call functions and classes."
          /\ Trace[p].ev = "bad_arity"
                => \E i \in 1..Len(rtReports) :
                      rtReports[i].message =
                          "Expected "
                          \o ToString(Arity(st, CallEvents(Trace[p].cid)[2].callee))
                          \o " arguments but got "
                          \o ToString(CallEvents(Trace[p].cid)[1].nargs) \o "."

\* a call of a non-callable failed after both of its arguments were
\* evaluated, and another call was invoked
C8_Witness ==
    /\ \E cid \in 1..st.ncalls :
          /\ CallEvents(cid)[1].nargs = 2
          /\ Len(CallEvents(cid)) = 5
          /\ CallEvents(cid)[5].ev = "not_callable"
    /\ \E p \in 1..Len(Trace) : Trace[p].ev = "invoke"

\* C9: a call of a user function binds the parameters in a new environment
\* enclosing the closure and returns the value of the Return raised in the
\* body, nil when the body ends without one, and `this` of the closure when
\* the function is an initializer.
C9_FunctionCallResult ==
    \A i \in 1..Len(Trace) :
        /\ Trace[i].ev = "fn_enter" =>
              st.envs[Trace[i].env].enclosing = st.funs[Trace[i].f].closure
        /\ (Trace[i].ev = "fn_exit" /\ Trace[i].body \in {"ok", "return"}) =>
              /\ Trace[i].sig = "ok"
              /\ Trace[i].val =
                    IF st.funs[Trace[i].f].is_initializer
                    THEN st.envs[st.funs[Trace[i].f].closure].values["this"]
                    ELSE IF Trace[i].body = "return" THEN Trace[i].returned
                    ELSE Nil

\* C10: a call of a class makes one new instance, calls the initializer
\* found by find_method, bound to that instance, once with the arguments,
\* and, when the initializer body ends or returns, yields the instance.
C10_ClassCallResult ==
    \A i \in 1..Len(Trace) :
        Trace[i].ev = "class_call" =>
            LET initializer == FindMethod(st.classes, Trace[i].class, "init")
                inits == { j \in (i + 1)..Len(Trace) :
                              /\ Trace[j].ev = "fn_enter"
                              /\ st.funs[Trace[j].f].is_initializer
                              /\ st.envs[st.funs[Trace[j].f].closure].values["this"]
                                    = InstV(Trace[i].instance) }
            IN  /\ initializer = 0 => inits = {}
                /\ \A j \in inits : Trace[j].arguments = Trace[i].arguments
                /\ \A x \in (i + 1)..Len(Trace) :
                      (Trace[x].ev = "class_exit" /\ Trace[x].instance = Trace[i].instance
                         /\ \A j \in inits : \E y \in (j + 1)..(x - 1) :
                               /\ Trace[y].ev = "fn_exit"
                               /\ Trace[y].env = Trace[j].env
                               /\ Trace[y].body \in {"ok", "return"})
                      => /\ Cardinality(inits) = (IF initializer = 0 THEN 0 ELSE 1)
                         /\ Trace[x].sig = "ok"
                         /\ Trace[x].val = InstV(Trace[i].instance)

\* ----------------------------------------------------------------- probes

\* what every probe starts with:
\*   class A { m() { return "A.m"; } n() { return "A.n"; } }
\*   class B < A { m() { return "B.m"; } }
\*   class C < B { k() { return "C.k"; } }
\*   fun f() {}  var a = A();  var a2 = A();  var c = C();  var u;
Prelude ==
    << Class(901, Ident("A", 1), NoNode,
             << Function(902, Ident("m", 1), << >>, << Return(1, S("A.m")) >>),
                Function(903, Ident("n", 1), << >>, << Return(1, S("A.n")) >>) >>),
       Class(904, Ident("B", 2), V(905, "A", 2),
             << Function(906, Ident("m", 2), << >>, << Return(2, S("B.m")) >>) >>),
       Class(907, Ident("C", 3), V(908, "B", 3),
             << Function(909, Ident("k", 3), << >>, << Return(3, S("C.k")) >>) >>),
       Function(910, Ident("f", 4), << >>, << >>),
       Var(Ident("a", 5), Call(911, V(912, "A", 5), << >>)),
       Var(Ident("a2", 6), Call(913, V(914, "A", 6), << >>)),
       Var(Ident("c", 7), Call(915, V(916, "C", 7), << >>)),
       Var(Ident("u", 8), NoNode) >>

\* The sources of the probes: the prelude, then
\*   at most MaxStmts different statements that set or get a property, or
\*   var x = X; var y = Y; var r = x op y;   for operands X, Y and a binary op, or
\*   var x = X; followed by one statement that has x as the operand of a
\*   unary operator, of `and` or `or`, or as the condition of if or while.
\* The operands are the keyword literals as the parser builds them, numbers,
\* strings, the results of -0, -1 and of comparisons, and the prelude's names.
Probes ==
    LET PropertyPool ==
            << \* a.x = 1;
               Expression(Set(V(111, "a", 11), Ident("x", 11), N(1))),
               \* a.m = "field";
               Expression(Set(V(121, "a", 12), Ident("m", 12), S("field"))),
               \* c.x = 2;
               Expression(Set(V(131, "c", 13), Ident("x", 13), N(2))),
               \* var r = a.x;
               Var(Ident("r", 14), Get(V(141, "a", 14), Ident("x", 14))),
               \* var r = a.m;
               Var(Ident("r", 15), Get(V(151, "a", 15), Ident("m", 15))),
               \* var r = a2.m;
               Var(Ident("r", 16), Get(V(161, "a2", 16), Ident("m", 16))),
               \* var r = c.m;
               Var(Ident("r", 17), Get(V(171, "c", 17), Ident("m", 17))),
               \* var r = c.n;
               Var(Ident("r", 18), Get(V(181, "c", 18), Ident("n", 18))),
               \* var r = c.x;
               Var(Ident("r", 19), Get(V(191, "c", 19), Ident("x", 19))),
               \* var r = a.nope;
               Var(Ident("r", 20), Get(V(201, "a", 20), Ident("nope", 20))) >>
        Operand(id, line) ==
            << Primary("NIL"), Primary("TRUE"), Primary("FALSE"),
               S(""), S("a"), N(0), N(1), N(2),
               Unary(Op("MINUS"), N(0)), Unary(Op("MINUS"), N(1)),
               Binary(N(1), Op("LESS"), N(2)), Binary(N(2), Op("LESS"), N(1)),
               V(id, "u", line), V(id, "f", line), V(id, "A", line),
               V(id, "a", line), V(id, "a2", line), V(id, "clock", line),
               Get(V(id, "a", line), Ident("m", line)) >>
        Operands == 1..Len(Operand(0, 0))
        BinaryOps == {"PLUS", "MINUS", "STAR", "SLASH", "GREATER", "GREATER_EQUAL",
                      "LESS", "LESS_EQUAL", "EQUAL_EQUAL", "BANG_EQUAL"}
        X == V(131, "x", 13)
        OnX ==
            { \* var r = !x;   var r = -x;   -x;
              Var(Ident("r", 13), Unary(Op("BANG"), X)),
              Var(Ident("r", 13), Unary(Op("MINUS"), X)),
              Expression(Unary(Op("MINUS"), X)),
              \* var r = x or "right";   var r = x and "right";
              Var(Ident("r", 13), Logical(X, Op("OR"), S("right"))),
              Var(Ident("r", 13), Logical(X, Op("AND"), S("right"))),
              \* if (x) print "then"; else print "else";
              If(X, PrintStmt(S("then")), PrintStmt(S("else"))),
              \* while (x) { print "body"; x = u; }
              While(X, Block(132, << PrintStmt(S("body")),
                                     Expression(Assign(133, Ident("x", 13),
                                                       V(134, "u", 13))) >>)) }
    IN  { Prelude \o [i \in 1..Len(q) |-> PropertyPool[q[i]]] :
            q \in { q \in UNION { [1..n -> 1..Len(PropertyPool)] : n \in 1..MaxStmts } :
                        \A i, j \in 1..Len(q) : i # j => q[i] # q[j] } }
        \cup
        { Prelude \o << Var(Ident("x", 11), Operand(111, 11)[i]),
                        Var(Ident("y", 12), Operand(121, 12)[j]),
                        Var(Ident("r", 13), Binary(X, Op(op), V(135, "y", 13))) >> :
            i \in Operands, j \in Operands, op \in BinaryOps }
        \cup
        { Prelude \o << Var(Ident("x", 11), Operand(111, 11)[i]), s >> :
            i \in Operands, s \in OnX }

\* Pylox, or the harness of the tests, given a probe
InitProbes ==
    /\ pc = "start"
    /\ mode \in {"run", "harness"}
    /\ prog \in Probes
    /\ syntaxErrors = FALSE
    /\ hadError = FALSE
    /\ hadRuntimeError = FALSE
    /\ rs = InitResolver([x \in {} |-> 0])
    /\ st = InitInterpreter
    /\ idx = 1
    /\ rtReports = << >>
    /\ exitCode = -1
    /\ scanner = Scanner(<< >>)
    /\ parser = Parser(<< >>)

SpecProbes == InitProbes /\ [][Next]_vars

\* the statement interpret_all is about to execute
AtStmt == IF pc = "interpret" /\ idx <= Len(prog) THEN prog[idx] ELSE NoNode

\* the value of a global variable in interpreter s
Global(s, name) == s.envs[GlobalsId].values[name]

\* C11: `var r = o.x;` gives r the field x of the instance o when it has
\* one, else the method x found by find_method bound to o, else fails with
\* "Undefined property 'x'."; `o.x = v;` installs the field on o only and
\* never fails.
C11_InstanceGetSet ==
    [][ /\ (AtStmt.t = "Var" /\ AtStmt.initializer.t = "Get") =>
              LET i == Global(st, AtStmt.initializer.object.name.lexeme).n
                  x == AtStmt.initializer.name.lexeme
                  method == FindMethod(st.classes, st.insts[i].klass, x)
              IN  IF x \in DOMAIN st.insts[i].fields
                  THEN /\ rtReports' = rtReports
                       /\ Global(st', AtStmt.name.lexeme) = st.insts[i].fields[x]
                  ELSE IF method # 0
                  THEN /\ rtReports' = rtReports
                       /\ Global(st', AtStmt.name.lexeme).k = "fun"
                       /\ st'.funs[Global(st', AtStmt.name.lexeme).n].declaration
                             = st.funs[method].declaration
                       /\ st'.envs[st'.funs[Global(st', AtStmt.name.lexeme).n].closure].values["this"]
                             = InstV(i)
                  ELSE /\ rtReports' = Append(rtReports,
                              [message |-> "Undefined property '" \o x \o "'.",
                               stmt |-> idx])
                       /\ st'.envs[GlobalsId] = st.envs[GlobalsId]
        /\ (AtStmt.t = "Expression" /\ AtStmt.expression.t = "Set") =>
              LET i == Global(st, AtStmt.expression.object.name.lexeme).n IN
              /\ rtReports' = rtReports
              /\ pc' = pc
              /\ st'.insts = [st.insts EXCEPT ![i].fields =
                                DictSet(@, AtStmt.expression.name.lexeme,
                                        AtStmt.expression.value.value)]
      ]_vars

\* a field set on an instance was read where the class has a method of that
\* name
C11_Witness ==
    /\ pc = "done"
    /\ mode = "harness"
    /\ "r" \in DOMAIN st.envs[GlobalsId].values
    /\ Global(st, "r") = Str("field")
    /\ \E i \in 1..Len(st.insts) :
          /\ "m" \in DOMAIN st.insts[i].fields
          /\ FindMethod(st.classes, st.insts[i].klass, "m") # 0

RECURSIVE SuperclassAt(_, _, _)
\* the class d superclasses up from class c; 0 when the chain is shorter
SuperclassAt(classes, c, d) ==
    IF d = 0 \/ c = 0 THEN c ELSE SuperclassAt(classes, classes[c].superclass, d - 1)

\* how far up the superclass chain of c the classes with a method m are
Holders(classes, c, m) ==
    { d \in 0..(Len(classes) - 1) :
        /\ SuperclassAt(classes, c, d) # 0
        /\ m \in DOMAIN classes[SuperclassAt(classes, c, d)].methods }

\* C12: find_method(m) on a class returns the class's own method m when it has
\* one, otherwise the method m of the nearest class of its superclass chain
\* that has one, otherwise nothing; and the chain of every class the evaluator
\* has constructed is finite (a superclass is an older class object), so the
\* lookup terminates.
C12_FindMethodNearest ==
    \A c \in 1..Len(st.classes) :
        /\ st.classes[c].superclass < c
        /\ \A m \in {"m", "n", "k", "init", "absent"} :
              IF Holders(st.classes, c, m) = {}
              THEN FindMethod(st.classes, c, m) = 0
              ELSE \E d \in Holders(st.classes, c, m) :
                      /\ \A d2 \in Holders(st.classes, c, m) : d <= d2
                      /\ FindMethod(st.classes, c, m)
                            = st.classes[SuperclassAt(st.classes, c, d)].methods[m]

\* a class two superclasses deep: one method is its grandparent's, one is
\* its parent's although the grandparent has one of that name, one is its
\* own, one is absent
C12_Witness ==
    \E c \in 1..Len(st.classes) :
        /\ SuperclassAt(st.classes, c, 2) # 0
        /\ Holders(st.classes, c, "n") = {2}
        /\ FindMethod(st.classes, c, "n")
              = st.classes[SuperclassAt(st.classes, c, 2)].methods["n"]
        /\ Holders(st.classes, c, "m") = {1, 2}
        /\ FindMethod(st.classes, c, "m")
              = st.classes[SuperclassAt(st.classes, c, 1)].methods["m"]
        /\ FindMethod(st.classes, c, "k") = st.classes[c].methods["k"]
        /\ FindMethod(st.classes, c, "absent") = 0

\* interpret_all is at the last statement of a probe of one operand, x
AtProbeOnX ==
    /\ pc = "interpret" /\ idx = Len(Prelude) + 2 /\ Len(prog) = idx
    /\ prog[idx - 1].t = "Var" /\ prog[idx - 1].name.lexeme = "x"

\* the value of the probes' variable x, and the expression it was declared
\* with
ProbeX == Global(st, "x")

ProbeXInitializer == prog[idx - 1].initializer

\* what C13 calls falsy: nil, the boolean false, and what the literals
\* `false` and `nil` evaluate to
Falsy(v, initializer) ==
    v = Nil \/ v = Bool(FALSE) \/ initializer \in {Primary("FALSE"), Primary("NIL")}

\* C13: the operand of `!`, the left operand of `or` and of `and`, and the
\* condition of if and of while are treated as falsy exactly when the value is
\* nil or the boolean false (the literals `false` and `nil` included); every
\* other value is treated as truthy.
C13_Truthiness ==
    [][ AtProbeOnX =>
          LET falsy == Falsy(ProbeX, ProbeXInitializer) IN
          CASE AtStmt.t = "Var" /\ AtStmt.initializer.t = "Unary"
                  /\ AtStmt.initializer.operator.token_type = "BANG" ->
                  Global(st', "r") = Bool(falsy)
            [] AtStmt.t = "Var" /\ AtStmt.initializer.t = "Logical"
                  /\ AtStmt.initializer.operator.token_type = "OR" ->
                  Global(st', "r") = IF falsy THEN Str("right") ELSE ProbeX
            [] AtStmt.t = "Var" /\ AtStmt.initializer.t = "Logical"
                  /\ AtStmt.initializer.operator.token_type = "AND" ->
                  Global(st', "r") = IF falsy THEN ProbeX ELSE Str("right")
            [] AtStmt.t = "If" ->
                  st'.out = Append(st.out, IF falsy THEN "else" ELSE "then")
            [] AtStmt.t = "While" ->
                  st'.out = IF falsy THEN st.out ELSE Append(st.out, "body")
            [] OTHER -> TRUE
      ]_vars

\* interpret_all is at the last statement of a probe of two operands:
\* var r = x op y
AtProbeOnXY ==
    /\ pc = "interpret" /\ idx = Len(Prelude) + 3 /\ Len(prog) = idx
    /\ prog[idx - 2].t = "Var" /\ prog[idx - 2].name.lexeme = "x"
    /\ prog[idx - 1].t = "Var" /\ prog[idx - 1].name.lexeme = "y"

ProbeY == Global(st, "y")

ProbeOp == AtStmt.initializer.operator.token_type

\* the value the language gives an operand: the keyword literals are the
\* booleans and nil, -0 is the number 0, anything else is the value v that
\* the evaluator has for it
Denoted(v, initializer) ==
    CASE initializer = Primary("TRUE") -> Bool(TRUE)
      [] initializer = Primary("FALSE") -> Bool(FALSE)
      [] initializer = Primary("NIL") -> Nil
      [] initializer = Unary(Op("MINUS"), N(0)) -> Num(0)
      [] OTHER -> v

ProbeLeft == Denoted(ProbeX, prog[idx - 2].initializer)

ProbeRight == Denoted(ProbeY, prog[idx - 1].initializer)

\* C14: `==` and `!=` never fail; x == y is true exactly when x and y are the
\* same value (nil with nil, booleans, numbers and strings by value, a
\* callable or an instance with itself only, values of different kinds never),
\* and x != y is its negation.
C14_Equality ==
    [][ (AtProbeOnXY /\ ProbeOp \in {"EQUAL_EQUAL", "BANG_EQUAL"}) =>
          /\ rtReports' = rtReports
          /\ pc' = pc
          /\ Global(st', "r") = IF ProbeOp = "EQUAL_EQUAL"
                                THEN Bool(ProbeLeft = ProbeRight)
                                ELSE Bool(ProbeLeft # ProbeRight)
      ]_vars

\* the step reports the runtime error message, once, and declares no r
FailsWith(message) ==
    /\ rtReports' = Append(rtReports, [message |-> message, stmt |-> idx])
    /\ "r" \notin DOMAIN st'.envs[GlobalsId].values

\* the step reports nothing, goes on, and declares r as v
Yields(v) ==
    /\ rtReports' = rtReports
    /\ pc' = pc
    /\ "r" \in DOMAIN st'.envs[GlobalsId].values
    /\ Global(st', "r") = v

\* C15: x + y is the sum of two numbers, the concatenation of two strings
\* whatever they contain, and for every other pair of values it fails with
\* "Operands must be two numbers or two strings."
C15_Plus ==
    [][ (AtProbeOnXY /\ ProbeOp = "PLUS") =>
          IF ProbeX.k = "num" /\ ProbeY.k = "num"
          THEN Yields(Num(ProbeX.n + ProbeY.n))
          ELSE IF ProbeX.k = "str" /\ ProbeY.k = "str"
          THEN Yields(Str(ProbeX.s \o ProbeY.s))
          ELSE FailsWith("Operands must be two numbers or two strings.")
      ]_vars

\* C16: each of - * / > >= < <= fails with "Operands must be numbers." and
\* yields no value when at least one operand is not a number.
C16_NumberOperands ==
    [][ (/\ AtProbeOnXY
         /\ ProbeOp \in {"MINUS", "STAR", "SLASH", "GREATER", "GREATER_EQUAL",
                         "LESS", "LESS_EQUAL"}
         /\ (ProbeX.k # "num" \/ ProbeY.k # "num")) =>
          FailsWith("Operands must be numbers.")
      ]_vars

\* C17: -x is the number -n when x is a number n, 0 included, and fails with
\* "Operand must be a number." otherwise; Interpreter.interpret, given -x
\* with x not a number, reports that message once and returns no result
\* (nothing is printed).
C17_UnaryMinus ==
    [][ /\ (/\ AtProbeOnX
            /\ AtStmt.t = "Var" /\ AtStmt.initializer.t = "Unary"
            /\ AtStmt.initializer.operator.token_type = "MINUS") =>
              IF ProbeX.k = "num"
              THEN Yields(Num(0 - ProbeX.n))
              ELSE FailsWith("Operand must be a number.")
        /\ (/\ pc = "post" /\ idx = Len(prog) /\ idx = Len(Prelude) + 2
            /\ prog[idx].t = "Expression" /\ prog[idx].expression.t = "Unary"
            /\ prog[idx].expression.operator.token_type = "MINUS"
            /\ ProbeX.k # "num") =>
              /\ rtReports' = Append(rtReports, [message |-> "Operand must be a number.",
                                                 stmt |-> idx])
              /\ st'.out = st.out
      ]_vars

\* C18: x / y with numbers x and y, y zero, raises nothing: the statement
\* declares r as a number, nothing is reported and interpret_all goes on.
C18_DivisionByZero ==
    [][ (/\ AtProbeOnXY /\ ProbeOp = "SLASH"
         /\ ProbeX.k = "num" /\ ProbeY = Num(0)) =>
          /\ rtReports' = rtReports
          /\ pc' = pc
          /\ idx' = idx + 1
          /\ "r" \in DOMAIN st'.envs[GlobalsId].values
          /\ Global(st', "r").k = "num"
      ]_vars

\* ------------------------------------------------- Environment, by itself

\* Environment() and Environment(enclosing=...) as the tests of Environment
\* build them: environment 1 has no enclosing one, and each other
\* environment e has e - 1 as its enclosing one
InitEnvironment ==
    /\ pc = "environment"
    /\ mode = "harness"
    /\ prog = << >>
    /\ syntaxErrors = FALSE
    /\ hadError = FALSE
    /\ hadRuntimeError = FALSE
    /\ rs = InitResolver([x \in {} |-> 0])
    /\ st = [InitInterpreter EXCEPT
                !.envs = [e \in 1..MaxEnvs |-> Environment(EmptyDict, e - 1, 0)]]
    /\ idx = 1
    /\ rtReports = << >>
    /\ exitCode = -1
    /\ scanner = Scanner(<< >>)
    /\ parser = Parser(<< >>)

\* the names and values that define and assign are called with
Bindings == { << "x", Num(1) >>, << "x", Num(2) >>, << "y", Num(1) >> }

\* env.define(name, value) on environment e; st.cur is the receiver of the
\* last call, st.trace what the last call logged
EnvironmentDefine ==
    /\ pc = "environment"
    /\ \E e \in 1..Len(st.envs), b \in Bindings :
          st' = Ok(Define([st EXCEPT !.cur = e, !.trace = << >>], e, b[1], b[2]), Nil)
    /\ UNCHANGED << pc, mode, prog, syntaxErrors, hadError, hadRuntimeError, rs, idx,
                    rtReports, exitCode >>
    /\ UNCHANGED << scanner, parser >>

\* env.get(token) on environment e, the RuntimeException caught by the caller
EnvironmentGet ==
    /\ pc = "environment"
    /\ \E e \in 1..Len(st.envs), name \in {"x", "y"} :
          st' = EnvGet([st EXCEPT !.cur = e, !.trace = << >>], e, Ident(name, 1))
    /\ UNCHANGED << pc, mode, prog, syntaxErrors, hadError, hadRuntimeError, rs, idx,
                    rtReports, exitCode >>
    /\ UNCHANGED << scanner, parser >>

\* env.assign(token, value) on environment e, the RuntimeException caught by
\* the caller
EnvironmentAssign ==
    /\ pc = "environment"
    /\ \E e \in 1..Len(st.envs), b \in Bindings :
          st' = EnvAssign([st EXCEPT !.cur = e, !.trace = << >>], e, Ident(b[1], 1), b[2])
    /\ UNCHANGED << pc, mode, prog, syntaxErrors, hadError, hadRuntimeError, rs, idx,
                    rtReports, exitCode >>
    /\ UNCHANGED << scanner, parser >>

SpecEnvironment ==
    InitEnvironment /\ [][EnvironmentDefine \/ EnvironmentGet \/ EnvironmentAssign]_vars

\* the last call was get, or assign, of this name
Called(s, ev, name) ==
    Len(s.trace) = 1 /\ s.trace[1].ev = ev /\ s.trace[1].lexeme = name

\* the hops from environment e to the environments of its chain that bind name
Binders(envs, e, name) ==
    { d \in 0..(Len(envs) - 1) :
        /\ Ancestor(envs, e, d) # 0
        /\ name \in DOMAIN envs[Ancestor(envs, e, d)].values }

\* the environment of e's chain nearest to e that binds name
Nearest(envs, e, name) ==
    Ancestor(envs, e, CHOOSE d \in Binders(envs, e, name) :
                          \A d2 \in Binders(envs, e, name) : d <= d2)

\* C19: get returns the value the name has in the nearest environment of the
\* receiver's chain that binds it, whatever the depth; define in an inner
\* environment leaves the outer ones as they are; and when no environment of
\* the chain binds the name, get fails with "Undefined variable 'X'." and
\* changes no environment.
C19_EnvironmentGet ==
    [][ \A name \in {"x", "y"} :
          /\ Called(st', "get", name) =>
                /\ st'.envs = st.envs
                /\ IF Binders(st.envs, st'.cur, name) # {}
                   THEN /\ st'.sig = "ok"
                        /\ st'.val = st.envs[Nearest(st.envs, st'.cur, name)].values[name]
                   ELSE /\ st'.sig = "error"
                        /\ st'.msg = "Undefined variable '" \o name \o "'."
          /\ (st'.trace = << >> /\ name \in DOMAIN st'.envs[st'.cur].values) =>
                \A e \in 1..Len(st.envs) : e # st'.cur => st'.envs[e] = st.envs[e]
      ]_vars

\* get on the innermost environment returned the value of the middle one,
\* which shadows a different value of the outermost
C19_Witness ==
    /\ pc = "environment"
    /\ Called(st, "get", "x")
    /\ st.cur = 3
    /\ "x" \notin DOMAIN st.envs[3].values
    /\ "x" \in DOMAIN st.envs[2].values
    /\ "x" \in DOMAIN st.envs[1].values
    /\ st.envs[2].values["x"] # st.envs[1].values["x"]
    /\ st.sig = "ok"
    /\ st.val = st.envs[2].values["x"]

\* C20: assign overwrites the binding of the nearest environment of the
\* receiver's chain that binds the name and changes nothing else, no new
\* binding included; when no environment of the chain binds the name it
\* fails with "Undefined variable 'X'." and changes no environment.
C20_EnvironmentAssign ==
    [][ \A name \in {"x", "y"} :
          Called(st', "assign", name) =>
              IF Binders(st.envs, st'.cur, name) # {}
              THEN /\ st'.sig = "ok"
                   /\ \A e \in 1..Len(st.envs) :
                         /\ DOMAIN st'.envs[e].values = DOMAIN st.envs[e].values
                         /\ \A x \in DOMAIN st.envs[e].values :
                               (e # Nearest(st.envs, st'.cur, name) \/ x # name)
                               => st'.envs[e].values[x] = st.envs[e].values[x]
                   /\ st'.envs[Nearest(st.envs, st'.cur, name)].values[name] = st'.val
              ELSE /\ st'.sig = "error"
                   /\ st'.msg = "Undefined variable '" \o name \o "'."
                   /\ st'.envs = st.envs
      ]_vars

\* ---------------------------------------------------- the resolver's reports

\* Resolver.resolve has returned
Resolved == pc \notin {"start", "resolve"} /\ ~ (mode = "run" /\ syntaxErrors)

\* the tokens the resolver reported with this message, in the order of the
\* reports
ReportedWith(message) ==
    LET withMessage == SelectSeq(rs.errors, LAMBDA e : e.message = message)
    IN  [i \in 1..Len(withMessage) |-> withMessage[i].token]

RECURSIVE ReturnsOutsideFunctions(_, _)
\* the keywords of the return statements of statements[i..] that are in no
\* function or method body, in source order
ReturnsOutsideFunctions(statements, i) ==
    IF i > Len(statements) THEN << >>
    ELSE (CASE statements[i].t = "Return" -> << statements[i].keyword >>
            [] statements[i].t = "Block" ->
                  ReturnsOutsideFunctions(statements[i].statements, 1)
            [] statements[i].t = "If" ->
                  ReturnsOutsideFunctions(
                      << statements[i].then_branch >>
                      \o (IF statements[i].else_branch.t # "None"
                          THEN << statements[i].else_branch >> ELSE << >>), 1)
            [] statements[i].t = "While" ->
                  ReturnsOutsideFunctions(<< statements[i].body >>, 1)
            [] OTHER -> << >>)
         \o ReturnsOutsideFunctions(statements, i + 1)

\* C21: the resolver reports "Can't return from top-level code." for exactly
\* the return statements that are in no function or method body, those nested
\* in a top-level block, if or while included.
C21_TopLevelReturn ==
    Resolved =>
        ReportedWith("Can't return from top-level code.")
            = ReturnsOutsideFunctions(prog, 1)

RECURSIVE LocalDeclarations(_, _, _)
\* the variables, functions, classes and parameters that statements[i..]
\* declare in a local scope, in source order, each with the scope it is
\* declared in; origin is the scope the statements are in
LocalDeclarations(statements, i, origin) ==
    IF i > Len(statements) THEN << >>
    ELSE LET stmt == statements[i]
             here == IF origin.kind = "global" THEN << >>
                     ELSE << [token |-> stmt.name, origin |-> origin] >>
             OfFunction(f) ==
                 [j \in 1..Len(f.params) |->
                     [token |-> f.params[j], origin |-> [kind |-> "call", id |-> f.id]]]
                 \o LocalDeclarations(f.body, 1, [kind |-> "call", id |-> f.id])
             RECURSIVE OfMethods(_)
             OfMethods(j) ==
                 IF j > Len(stmt.methods) THEN << >>
                 ELSE OfFunction(stmt.methods[j]) \o OfMethods(j + 1)
         IN  (CASE stmt.t = "Var" -> here
                [] stmt.t = "Function" -> here \o OfFunction(stmt)
                [] stmt.t = "Class" -> here \o OfMethods(1)
                [] stmt.t = "Block" ->
                      LocalDeclarations(stmt.statements, 1,
                                        [kind |-> "block", id |-> stmt.id])
                [] stmt.t = "If" ->
                      LocalDeclarations(
                          << stmt.then_branch >>
                          \o (IF stmt.else_branch.t # "None"
                              THEN << stmt.else_branch >> ELSE << >>), 1, origin)
                [] stmt.t = "While" -> LocalDeclarations(<< stmt.body >>, 1, origin)
                [] OTHER -> << >>)
             \o LocalDeclarations(statements, i + 1, origin)

RECURSIVE Uses(_)
\* the variable expressions and assignments of a statement or expression,
\* each with the name it uses
Uses(node) ==
    LET All(nodes) == UNION { Uses(nodes[j]) : j \in 1..Len(nodes) }
    IN  CASE node.t = "Variable" -> { [t |-> node.t, id |-> node.id, name |-> node.name] }
          [] node.t = "Assign" ->
                { [t |-> node.t, id |-> node.id, name |-> node.name] } \cup Uses(node.value)
          [] node.t \in {"Binary", "Logical"} -> Uses(node.left) \cup Uses(node.right)
          [] node.t = "Unary" -> Uses(node.right)
          [] node.t \in {"Grouping", "Expression", "Print"} -> Uses(node.expression)
          [] node.t = "Call" -> Uses(node.callee) \cup All(node.arguments)
          [] node.t = "Get" -> Uses(node.object)
          [] node.t = "Set" -> Uses(node.object) \cup Uses(node.value)
          [] node.t = "Var" -> Uses(node.initializer)
          [] node.t = "Block" -> All(node.statements)
          [] node.t = "If" ->
                Uses(node.condition) \cup Uses(node.then_branch) \cup Uses(node.else_branch)
          [] node.t = "While" -> Uses(node.condition) \cup Uses(node.body)
          [] node.t = "Function" -> All(node.body)
          [] node.t = "Return" -> Uses(node.value)
          [] node.t = "Class" -> Uses(node.superclass) \cup All(node.methods)
          [] OTHER -> {}

\* some use or assignment of the program resolved to this declaration: the
\* resolver found the name in the scope of the declaration
ResolvedTo(declaration) ==
    \E use \in UNION { Uses(prog[j]) : j \in 1..Len(prog) } :
        /\ use.name.lexeme = declaration.token.lexeme
        /\ use.id \in DOMAIN rs.chosen
        /\ rs.chosen[use.id] = declaration.origin

\* the local declarations nothing resolved to, in source order
UnusedDeclarations ==
    LET unused == SelectSeq(LocalDeclarations(prog, 1, [kind |-> "global", id |-> 0]),
                            LAMBDA d : ~ ResolvedTo(d))
    IN  [i \in 1..Len(unused) |-> unused[i].token]

\* C22: once the resolver has returned, the variables reported as unused are the
\* local declarations that no use or assignment resolved to, reported in the
\* source order of their declarations
C22_UnusedInSourceOrder ==
    Resolved => ReportedWith("Unused variable.") = UnusedDeclarations

RECURSIVE LocalVars(_, _, _)
\* the var statements of statements[i..] that are in a local scope; local
\* tells whether the statements themselves are in one
LocalVars(statements, i, local) ==
    IF i > Len(statements) THEN {}
    ELSE LET stmt == statements[i]
         IN  (CASE stmt.t = "Var" -> IF local THEN { stmt } ELSE {}
                [] stmt.t = "Block" -> LocalVars(stmt.statements, 1, TRUE)
                [] stmt.t = "Function" -> LocalVars(stmt.body, 1, TRUE)
                [] stmt.t = "Class" ->
                      UNION { LocalVars(stmt.methods[j].body, 1, TRUE) :
                                j \in 1..Len(stmt.methods) }
                [] stmt.t = "If" ->
                      LocalVars(<< stmt.then_branch >>
                                \o (IF stmt.else_branch.t # "None"
                                    THEN << stmt.else_branch >> ELSE << >>), 1, local)
                [] stmt.t = "While" -> LocalVars(<< stmt.body >>, 1, local)
                [] OTHER -> {})
             \cup LocalVars(statements, i + 1, local)

\* the name tokens of the variable expressions that read, in the initializer
\* of a local variable, that variable
OwnInitializerReads ==
    { use.name : use \in UNION { { u \in Uses(v.initializer) :
                                     u.t = "Variable" /\ u.name.lexeme = v.name.lexeme } :
                                 v \in LocalVars(prog, 1, FALSE) } }

\* C27: once the resolver has returned, the variable uses reported for reading
\* a local variable in its own initializer are the uses, in the initializer of
\* a local variable, of that variable's name, on whichever line the use is
C27_OwnInitializer ==
    Resolved =>
        LET reported == ReportedWith("Can't read local variable in its own initializer.")
        IN  { reported[i] : i \in 1..Len(reported) } = OwnInitializerReads

\* ------------------------------------------------------------ this and super

RECURSIVE Keywords(_, _)
\* the this and super expressions of a statement or expression of a method
\* body, each with the number of scopes opened between the body and it;
\* a class nested in the method has a `this` of its own
Keywords(node, depth) ==
    LET All(nodes, d) == UNION { Keywords(nodes[j], d) : j \in 1..Len(nodes) }
    IN  CASE node.t \in {"This", "Super"} -> { [t |-> node.t, id |-> node.id, depth |-> depth] }
          [] node.t = "Assign" -> Keywords(node.value, depth)
          [] node.t \in {"Binary", "Logical"} ->
                Keywords(node.left, depth) \cup Keywords(node.right, depth)
          [] node.t = "Unary" -> Keywords(node.right, depth)
          [] node.t \in {"Grouping", "Expression", "Print"} ->
                Keywords(node.expression, depth)
          [] node.t = "Call" -> Keywords(node.callee, depth) \cup All(node.arguments, depth)
          [] node.t = "Get" -> Keywords(node.object, depth)
          [] node.t = "Set" -> Keywords(node.object, depth) \cup Keywords(node.value, depth)
          [] node.t = "Var" -> Keywords(node.initializer, depth)
          [] node.t = "Block" -> All(node.statements, depth + 1)
          [] node.t = "If" ->
                Keywords(node.condition, depth) \cup Keywords(node.then_branch, depth)
                \cup Keywords(node.else_branch, depth)
          [] node.t = "While" -> Keywords(node.condition, depth) \cup Keywords(node.body, depth)
          [] node.t = "Function" -> All(node.body, depth + 1)
          [] node.t = "Return" -> Keywords(node.value, depth)
          [] OTHER -> {}

\* the this and super expressions of the methods of the top-level classes of
\* the program that have a superclass
SubclassKeywords ==
    UNION { UNION { UNION { Keywords(prog[i].methods[j].body[k], 0) :
                            k \in 1..Len(prog[i].methods[j].body) } :
                    j \in 1..Len(prog[i].methods) } :
            i \in { i \in 1..Len(prog) :
                      prog[i].t = "Class" /\ prog[i].superclass.t # "None" } }

\* the resolver recorded for `this` the hops from its place to the scope
\* around the method bodies, and for `super` one hop more
SuperOneBeyondThis ==
    \A k \in SubclassKeywords :
        /\ k.id \in DOMAIN rs.locals
        /\ rs.locals[k.id] = k.depth + (IF k.t = "This" THEN 1 ELSE 2)

\* the instance is of a class that has this superclass, or inherits from one
InstanceBelow(instance, superclass) ==
    \E d \in 0..Len(st.classes) :
        /\ SuperclassAt(st.classes, st.insts[instance].klass, d) # 0
        /\ st.classes[SuperclassAt(st.classes, st.insts[instance].klass, d)].superclass
              = superclass

\* the function value is the method of that name the class finds, bound to
\* the instance
BoundMethodOf(f, superclass, instance) ==
    LET method == FindMethod(st.classes, superclass, st.funs[f].declaration.name.lexeme)
    IN  /\ method # 0
        /\ st.funs[f].declaration = st.funs[method].declaration
        /\ st.envs[st.funs[f].closure].enclosing = st.funs[method].closure
        /\ st.envs[st.funs[f].closure].values["this"] = InstV(instance)

\* the evaluation of a super expression that starts at event i of the trace
\* found `super` bound to a class and, one hop nearer, `this` bound to an
\* instance below that class, and what a call then called is that class's
\* method bound to the instance
SuperLookup(i) ==
    /\ Trace[i].bound
    /\ st.envs[Trace[i].env].values["super"].k = "class"
    /\ i < Len(Trace)
    /\ Trace[i + 1].ev = "get_at"
    /\ Trace[i + 1].key = StrKey("this")
    /\ Trace[i + 1].from = Trace[i].from
    /\ Trace[i + 1].distance = Trace[i].distance - 1
    /\ Trace[i + 1].bound
    /\ st.envs[Trace[i + 1].env].enclosing = Trace[i].env
    /\ st.envs[Trace[i + 1].env].values["this"].k = "inst"
    /\ InstanceBelow(st.envs[Trace[i + 1].env].values["this"].n,
                     st.envs[Trace[i].env].values["super"].n)
    /\ (i + 1 < Len(Trace) /\ Trace[i + 2].ev = "callee") =>
          /\ Trace[i + 2].callee.k = "fun"
          /\ BoundMethodOf(Trace[i + 2].callee.n,
                           st.envs[Trace[i].env].values["super"].n,
                           st.envs[Trace[i + 1].env].values["this"].n)

\* C28: in the methods of a class with a superclass the distance recorded for
\* `super` is one more than the one for `this` at the same place; when the
\* program has no static error, every evaluation of a super expression finds
\* `super` bound to the superclass at its distance and `this` bound to the
\* instance one hop nearer, and super.m is the superclass's m bound to it
C28_SuperAndThis ==
    /\ Resolved => SuperOneBeyondThis
    /\ (Resolved /\ NoStaticError) =>
          \A i \in 1..Len(Trace) :
              (Trace[i].ev = "get_at" /\ Trace[i].key = StrKey("super")) => SuperLookup(i)

\* a method with `this` and, one block further in, `super`, whose call of
\* super.m went through
C28_Witness ==
    /\ Resolved
    /\ NoStaticError
    /\ \E k1, k2 \in SubclassKeywords :
          k1.t = "This" /\ k2.t = "Super" /\ k2.depth = k1.depth + 1
    /\ \E i \in 1..(Len(Trace) - 2) :
          /\ Trace[i].ev = "get_at"
          /\ Trace[i].key = StrKey("super")
          /\ Trace[i + 2].ev = "callee"

\* ------------------------------------------------------------------ run

\* what the driver had evaluated so far: the statements interpret_all
\* executed and the expressions Interpreter.interpret evaluated
Evaluations == SelectSeq(Trace, LAMBDA e : e.ev \in {"execute", "interpret"})

\* C29: as long as no error was reported, run has evaluated the top-level
\* statements once each, in source order, the expression statements as well,
\* and once interpret_all is through nothing more is written to standard
\* output
C29_RunEvaluatesOnce ==
    /\ []((mode = "run" /\ NoStaticError /\ ~ hadRuntimeError) =>
            \A i \in 1..Len(Evaluations) :
                Evaluations[i].ev = "execute" /\ Evaluations[i].stmt = i)
    /\ [][(mode = "run" /\ pc = "post" /\ ~ hadRuntimeError') => st'.out = st.out]_vars

\* ------------------------------------------------- the resolver's own state

\* a resolver in the middle of its work: one scope open, inside a function of
\* this type and a class of this type
Resolving(function_type, class_type) ==
    [BeginScope(InitResolver(st.locals), [kind |-> "block", id |-> 0])
     EXCEPT !.current_function = function_type, !.current_class = class_type]

\* C30: when Resolver.resolve has returned, with or without reports, no scope
\* is left on the stack and the function type and class type are NONE again;
\* and resolving any statement of the program from a state with a scope open
\* leaves the stack as deep as it was and the two types as they were
C30_ResolverRestored ==
    /\ Resolved =>
          /\ rs.scopes = << >>
          /\ rs.current_function = "NONE"
          /\ rs.current_class = "NONE"
    /\ pc = "resolve" =>
          \A i \in 1..Len(prog) :
              \A f \in {"NONE", "FUNCTION", "METHOD", "INITIALIZER"} :
                  \A c \in {"NONE", "CLASS", "SUBCLASS"} :
                      /\ Len(ResolveStmt(Resolving(f, c), prog[i]).scopes) = 1
                      /\ ResolveStmt(Resolving(f, c), prog[i]).current_function = f
                      /\ ResolveStmt(Resolving(f, c), prog[i]).current_class = c

\* the resolver has returned with a report made in an initializer and one
\* for a function declared in a method of a subclass
C30_Witness ==
    /\ Resolved
    /\ ReportedWith("Can't return a value from an initializer.") # << >>
    /\ ReportedWith("Unused variable.") # << >>
    /\ \E i \in 1..Len(prog) : prog[i].t = "Class" /\ prog[i].superclass.t # "None"

\* ------------------------------------------------------ Scanner, by itself

\* Characters of a source.
MaxSource == 3

\* the sources scanned: every sequence of at most MaxSource of these
\* characters
Sources ==
    UNION { [1..n -> {"(", "!", "=", "/", "\"", "\n", " ", "1", "0", ".", "a", "@", "$"}] :
            n \in 0..MaxSource }

InitScanner ==
    /\ pc = "scan"
    /\ mode = "harness"
    /\ prog = << >>
    /\ syntaxErrors = FALSE
    /\ hadError = FALSE
    /\ hadRuntimeError = FALSE
    /\ rs = InitResolver([x \in {} |-> 0])
    /\ st = InitInterpreter
    /\ idx = 1
    /\ rtReports = << >>
    /\ exitCode = -1
    /\ scanner \in { Scanner(source) : source \in Sources }
    /\ parser = Parser(<< >>)

\* one iteration of the loop of Scanner.scan_tokens
ScanTokensStep ==
    /\ pc = "scan"
    /\ scanner.raised = ""
    /\ ~ ScannerIsAtEnd(scanner)
    /\ scanner' = ScanToken([scanner EXCEPT !.start = scanner.current])
    /\ UNCHANGED << pc, mode, prog, syntaxErrors, hadError, hadRuntimeError, rs, st, idx,
                    rtReports, exitCode, parser >>

\* Scanner.scan_tokens appends the EOF token and returns
ScanTokensReturn ==
    /\ pc = "scan"
    /\ scanner.raised = ""
    /\ ScannerIsAtEnd(scanner)
    /\ scanner' = [scanner EXCEPT !.tokens = Append(@, LiteralToken("EOF", "", Nil,
                                                                    scanner.line))]
    /\ pc' = "scanned"
    /\ UNCHANGED << mode, prog, syntaxErrors, hadError, hadRuntimeError, rs, st, idx,
                    rtReports, exitCode, parser >>

SpecScanner == InitScanner /\ [][ScanTokensStep \/ ScanTokensReturn]_vars

\* ------------------------------------------------------- Parser, by itself

\* Tokens of a token list, its EOF apart.
MaxTokens == 4

\* the token lists parsed: every list of at most MaxTokens of eight tokens, a
\* block with an error in it or without its end, the for statements with each
\* clause there or not, and the calls and the functions with few arguments or
\* parameters and with about the limit
TokenLists ==
    LET T(token_type, lexeme) == LiteralToken(token_type, lexeme, Nil, 1)
        a == T("IDENTIFIER", "a")
        one == LiteralToken("NUMBER", "1", Num(1), 1)
        Separated(n) == [i \in 1..(IF n = 0 THEN 0 ELSE 2 * n - 1) |->
                            IF i % 2 = 1 THEN a ELSE T("COMMA", ",")]
        counts == {0, 1, 2, ArgumentLimit, ArgumentLimit + 1, ArgumentLimit + 2}
        short == UNION { [1..n -> {a, T("SEMICOLON", ";"), T("RIGHT_BRACE", "}"),
                                   T("EQUAL", "="), T("VAR", "var"), T("PRINT", "print"),
                                   T("FUN", "fun"), T("RETURN", "return")}] :
                         n \in 0..MaxTokens }
        blocks == { << T("LEFT_BRACE", "{") >> \o first \o second :
                    first \in { << >>, << a, T("SEMICOLON", ";") >>,
                                << T("EQUAL", "="), T("SEMICOLON", ";") >>,
                                << T("EQUAL", "="), T("PRINT", "print"), a,
                                   T("SEMICOLON", ";") >> },
                    second \in { << >>, << T("RIGHT_BRACE", "}") >>,
                                 << T("RIGHT_BRACE", "}"), T("PRINT", "print"), a,
                                    T("SEMICOLON", ";") >> } }
        for == { << T("FOR", "for"), T("LEFT_PAREN", "(") >>
                 \o initializer \o condition \o << T("SEMICOLON", ";") >> \o increment
                 \o << T("RIGHT_PAREN", ")"), T("PRINT", "print"), a, T("SEMICOLON", ";") >> :
                 initializer \in { << T("SEMICOLON", ";") >>,
                                   << T("VAR", "var"), a, T("EQUAL", "="), one,
                                      T("SEMICOLON", ";") >>,
                                   << a, T("EQUAL", "="), one, T("SEMICOLON", ";") >> },
                 condition \in { << >>, << a, T("LESS", "<"), one >> },
                 increment \in { << >>, << a, T("EQUAL", "="), a, T("PLUS", "+"), one >> } }
        calls == { << a, T("LEFT_PAREN", "(") >> \o Separated(n)
                   \o << T("RIGHT_PAREN", ")"), T("SEMICOLON", ";") >> : n \in counts }
        functions == { << T("FUN", "fun"), a, T("LEFT_PAREN", "(") >> \o Separated(n)
                       \o << T("RIGHT_PAREN", ")"), T("LEFT_BRACE", "{"),
                             T("RIGHT_BRACE", "}") >> : n \in counts }
    IN  { tokens \o << T("EOF", "") >> : tokens \in short \cup blocks \cup for \cup calls \cup functions }

InitParser ==
    /\ pc = "parse"
    /\ mode = "harness"
    /\ prog = << >>
    /\ syntaxErrors = FALSE
    /\ hadError = FALSE
    /\ hadRuntimeError = FALSE
    /\ rs = InitResolver([x \in {} |-> 0])
    /\ st = InitInterpreter
    /\ idx = 1
    /\ rtReports = << >>
    /\ exitCode = -1
    /\ scanner = Scanner(<< >>)
    /\ parser \in { Parser(tokens) : tokens \in TokenLists }

\* one iteration of the loop of Parser.parse_all; an exception that is not a
\* ParseError leaves parse_all
ParseAllStep ==
    /\ pc = "parse"
    /\ ~ ParserIsAtEnd(parser)
    /\ parser' = ParseAllAppend(ParseDeclaration(parser))
    /\ pc' = IF parser'.raised # "" THEN "uncaught" ELSE pc
    /\ UNCHANGED << mode, prog, syntaxErrors, hadError, hadRuntimeError, rs, st, idx,
                    rtReports, exitCode, scanner >>

\* Parser.parse_all returns its statements
ParseAllReturn ==
    /\ pc = "parse"
    /\ ParserIsAtEnd(parser)
    /\ prog' = parser.statements
    /\ pc' = "parsed"
    /\ UNCHANGED << mode, syntaxErrors, hadError, hadRuntimeError, rs, st, idx,
                    rtReports, exitCode, scanner, parser >>

SpecParser == InitParser /\ [][ParseAllStep \/ ParseAllReturn]_vars

\* ------------------------------------------------- what scan_tokens returns

\* the characters no case of _scan_token is for
Unrecognised(c) ==
    /\ c \notin {"(", ")", "{", "}", ",", ".", "-", "+", ";", "*", "!", "=", ">", "<", "/",
                 "\"", " ", "\r", "\t", "\n"}
    /\ ~ IsDigit(c)
    /\ ~ IsAlpha(c)

\* the line the end of the source is on
FinalLine(source) == 1 + Cardinality({ i \in 1..Len(source) : source[i] = "\n" })

\* the reports of unexpected characters so far
UnexpectedReports(s) ==
    SelectSeq(s.errors, LAMBDA e : e.message \in { "Unexpected character: " \o c :
                                                      c \in Characters })

\* C26: scan_tokens never raises and every iteration moves on in the source;
\* the list it returns ends with the one EOF token, of empty lexeme, nil literal
\* and the last line of the source; an iteration that starts at an
\* unrecognised character reports it, once and with its line, adds no token
\* and goes on with the next character, and no other iteration reports an
\* unexpected character.
C26_ScanTokens ==
    /\ [](/\ scanner.raised = ""
          /\ \A i \in 1..Len(scanner.tokens) :
                scanner.tokens[i].token_type = "EOF" =>
                    pc = "scanned" /\ i = Len(scanner.tokens)
          /\ pc = "scanned" =>
                /\ scanner.current = Len(scanner.source)
                /\ scanner.tokens # << >>
                /\ scanner.tokens[Len(scanner.tokens)]
                        = LiteralToken("EOF", "", Nil, FinalLine(scanner.source)))
    /\ [][ScanTokensStep =>
            /\ scanner'.current > scanner.current
            /\ IF Unrecognised(scanner.source[scanner.current + 1])
               THEN /\ scanner'.errors
                        = Append(scanner.errors,
                                 [line |-> scanner.line,
                                  message |-> "Unexpected character: "
                                              \o scanner.source[scanner.current + 1]])
                    /\ scanner'.tokens = scanner.tokens
                    /\ scanner'.current = scanner.current + 1
               ELSE UnexpectedReports(scanner') = UnexpectedReports(scanner)]_vars

\* a source with an unexpected character, a token and more than one line has
\* been scanned
C26_Witness ==
    /\ pc = "scanned"
    /\ Len(UnexpectedReports(scanner)) = 1
    /\ scanner.errors[1].message = "Unexpected character: @"
    /\ Len(scanner.tokens) = 2
    /\ scanner.line = 2

\* ------------------------------------------------------ the for statement

\* the parser p is at a for statement: the parser after its initializer
\* clause, which is not there when a semicolon follows the parenthesis
AfterInitializer(p) ==
    LET r == Advance(Advance(p))
    IN  CASE Check(r, {"SEMICOLON"}) -> Push(Advance(r), NoNode)
          [] Check(r, {"VAR"}) -> VarDeclaration(Advance(r))
          [] OTHER -> ExpressionStatement(r)

\* the parser after the condition clause and its semicolon
AfterCondition(p) ==
    LET r == AfterInitializer(p)
    IN  IF Check(r, {"SEMICOLON"}) THEN Push(Advance(r), NoNode)
        ELSE Consume(ParseExpression(r), "SEMICOLON", "Expect ';' after loop condition.")

\* the parser after the increment clause and the parenthesis
AfterIncrement(p) ==
    LET r == AfterCondition(p)
    IN  IF Check(r, {"RIGHT_PAREN"}) THEN Push(Advance(r), NoNode)
        ELSE Consume(ParseExpression(r), "RIGHT_PAREN", "expect ')' after for clauses.")

\* the initializer, the condition, the increment and the body, NoNode for a
\* clause that is not there
ForClauses(p) == ParseStatement(AfterIncrement(p)).stack

\* what the for statement is to be rewritten as
Rewritten(p) ==
    LET initializer == ForClauses(p)[1]
        condition == ForClauses(p)[2]
        increment == ForClauses(p)[3]
        body == ForClauses(p)[4]
        loop == While(IF condition = NoNode THEN Primary("TRUE") ELSE condition,
                      IF increment = NoNode THEN body
                      ELSE Block(p.current + 2, << body, Expression(increment) >>))
    IN  IF initializer = NoNode THEN loop
        ELSE Block(p.current + 1, << initializer, loop >>)

\* C23: parsing a for statement, whichever of its clauses are there, raises
\* nothing and returns the while loop of its condition, or of true, whose body
\* is the body and then the increment, in a block after the initializer.
C23_ForDesugared ==
    [][(ParseAllStep /\ Peek(parser).token_type = "FOR") =>
            /\ parser'.raised = ""
            /\ parser'.errors = parser.errors
            /\ parser'.statements = Append(parser.statements, Rewritten(parser))]_vars

\* -------------------------------------- the limit of arguments, parameters

\* the parser p is at a statement that is a call, or at a function
\* declaration, with arguments or parameters that are identifiers
AtCall(p) ==
    /\ Len(p.tokens) > p.current + 2
    /\ Peek(p).token_type = "IDENTIFIER"
    /\ p.tokens[p.current + 2].token_type = "LEFT_PAREN"

AtFunction(p) ==
    /\ Len(p.tokens) > p.current + 3
    /\ Peek(p).token_type = "FUN"
    /\ p.tokens[p.current + 3].token_type = "LEFT_PAREN"

\* how many they are: the identifiers from the left parenthesis to the first
\* right parenthesis
Listed(p, left) ==
    LET right == CHOOSE i \in left..Len(p.tokens) :
                    /\ p.tokens[i].token_type = "RIGHT_PAREN"
                    /\ \A j \in left..(i - 1) : p.tokens[j].token_type # "RIGHT_PAREN"
    IN  Cardinality({ j \in left..right : p.tokens[j].token_type = "IDENTIFIER" })

\* the errors p has reported with this message
ParserReports(p, message) == SelectSeq(p.errors, LAMBDA e : e.message = message)

\* C24: a call with n arguments is parsed into a Call with the n arguments and
\* a function declaration with n parameters into a Function with the n
\* parameters, nothing is raised, and "Can't have more than 255 arguments."
\* (parameters) is reported exactly when n > 255.
C24_LimitReported ==
    [][ParseAllStep =>
            /\ AtCall(parser) =>
                    /\ parser'.raised = ""
                    /\ Len(parser'.statements) = Len(parser.statements) + 1
                    /\ parser'.statements[Len(parser'.statements)].t = "Expression"
                    /\ parser'.statements[Len(parser'.statements)].expression.t = "Call"
                    /\ Len(parser'.statements[Len(parser'.statements)].expression.arguments)
                            = Listed(parser, parser.current + 2)
                    /\ ParserReports(parser', "Can't have more than 255 arguments.") # << >>
                            <=> Listed(parser, parser.current + 2) > ArgumentLimit
            /\ AtFunction(parser) =>
                    /\ parser'.raised = ""
                    /\ Len(parser'.statements) = Len(parser.statements) + 1
                    /\ parser'.statements[Len(parser'.statements)].t = "Function"
                    /\ Len(parser'.statements[Len(parser'.statements)].params)
                            = Listed(parser, parser.current + 3)
                    /\ ParserReports(parser', "Can't have more than 255 parameters.") # << >>
                            <=> Listed(parser, parser.current + 3) > ParameterLimit]_vars

\* ----------------------------------------------------- what parse_all does

\* the parser has stopped at an error with `at` tokens behind it: where it is
\* to resume, which is behind the token of the error and then at the first
\* place that is just after a semicolon, just before a keyword a statement
\* starts with, or at EOF
ResumesAt(tokens, at) ==
    IF tokens[at + 1].token_type = "EOF" THEN at
    ELSE CHOOSE q \in (at + 1)..(Len(tokens) - 1) :
            LET stop(i) == \/ tokens[i + 1].token_type = "EOF"
                           \/ tokens[i].token_type = "SEMICOLON"
                           \/ tokens[i + 1].token_type \in {"CLASS", "FUN", "VAR", "FOR", "IF",
                                                            "WHILE", "PRINT", "RETURN"}
            IN  stop(q) /\ \A i \in (at + 1)..(q - 1) : ~ stop(i)

\* C25: parse_all is left by no exception; each iteration of its loop uses up
\* at least one token and either appends one declaration to the statements or,
\* the declaration having failed, leaves the statements as they are, has
\* reported the error, and resumes past the token of the error just after the
\* next semicolon, just before the next statement keyword or at EOF; what
\* parse_all returns is these statements.
C25_ParseAll ==
    /\ [](parser.raised = "" /\ pc # "uncaught")
    /\ [][ParseAllStep =>
            /\ parser'.current > parser.current
            /\ \/ /\ Len(parser'.statements) = Len(parser.statements) + 1
                  /\ SubSeq(parser'.statements, 1, Len(parser.statements))
                        = parser.statements
               \/ /\ parser'.statements = parser.statements
                  /\ Len(parser'.errors) > Len(parser.errors)
                  /\ parser'.current
                        = ResumesAt(parser.tokens,
                                    parser'.errors[Len(parser'.errors)].at)]_vars
    /\ [][ParseAllReturn => prog' = parser.statements]_vars

====
